---- MODULE Spec2Model ----
(***************************************************************************)
(* Model of the metrics backend of cont-monitor-recursos (src/server.js):  *)
(* the fixed-window per-identity rate limiter, the token check, the        *)
(* single-slot metrics cache with its asynchronous recompute, and the      *)
(* periodic sweep of the rate-limit table.                                  *)
(*                                                                         *)
(* Time is the value of Date.now() in milliseconds.  Strings that the code *)
(* slices, trims or compares are sequences of one-character strings.       *)
(***************************************************************************)
EXTENDS Integers, Sequences, FiniteSets, TLC

VARIABLES
    now,            \* Date.now()
    env,            \* process.env: MONITOR_API_TOKEN, NODE_ENV, ALLOWED_ORIGINS
    ALLOWED_ORIGINS, \* the Set of allowed origins built at start-up
    rateLimitMap,   \* Map ip -> {count, resetAt}
    metricsCache,   \* {data, timestamp}; data = <<>> is null
    pending,        \* handlers suspended at `await calculateMetrics()`, each
                    \* with the cache entry it saw when it started
    sweepDue,       \* time at which the cleanup interval fires next
    last,           \* the handler event that happened most recently
    win,            \* per identity: reference fixed window (start, calls)
    roll,           \* per identity: an observed rolling 60 s interval
    nreq,           \* number of request steps taken
    retry,          \* per identity: the delays disclosed by 429 responses
    shadow,         \* the rate-limit table as it is when no sweep ever runs
    host,           \* what systeminformation reports and what is made of it
    pager,          \* the log page service: a source and the pages read from it
    viewer,         \* the log viewer component: its state and requests in flight
    monitor         \* the dashboard: the tab, the component's state and timer

\* the variables of the backend process
serverVars == <<now, env, ALLOWED_ORIGINS, rateLimitMap, metricsCache, pending,
                sweepDue, last, win, roll, nreq, retry, shadow>>

vars == <<now, env, ALLOWED_ORIGINS, rateLimitMap, metricsCache, pending, sweepDue,
          last, win, roll, nreq, retry, shadow, host, pager, viewer, monitor>>

----------------------------------------------------------------------------
(* Program constants *)

CACHE_TTL == 2500
RATE_LIMIT_WINDOW == 60000
RATE_LIMIT_MAX_REQUESTS == 100
RATE_LIMIT_CLEANUP_INTERVAL == 60000

(* Bounds of the model *)

MaxTime == 60000
MaxInFlight == 2
MaxRequests == 3
BurstSize == 99
MaxRetryRequests == 4
MaxUptimeDays == 10
MaxMemTotal == 200
MaxReads == 3
MaxWrites == 1
MaxFetches == 4
MaxMonitorTime == 10000
MaxVisibilityChanges == 2

----------------------------------------------------------------------------
(* Strings as sequences of characters *)

SP == " "
BearerPrefix == <<"B", "e", "a", "r", "e", "r", " ">>

\* String.prototype.startsWith
StartsWith(s, p) == Len(s) >= Len(p) /\ SubSeq(s, 1, Len(p)) = p

\* String.prototype.slice(k), k >= 0
Slice(s, k) == SubSeq(s, k + 1, Len(s))

RECURSIVE TrimStart(_)
TrimStart(s) == IF s # <<>> /\ Head(s) = SP THEN TrimStart(Tail(s)) ELSE s

RECURSIVE TrimEnd(_)
TrimEnd(s) ==
    IF s # <<>> /\ s[Len(s)] = SP THEN TrimEnd(SubSeq(s, 1, Len(s) - 1)) ELSE s

\* String.prototype.trim
Trim(s) == TrimEnd(TrimStart(s))

----------------------------------------------------------------------------
(* The environment: configuration and the requests clients send *)

RawTokens == { <<" ">>, <<" ", "t", "k">> }
NodeEnvs == { "development", "production" }

IPs == { "10.0.0.1", "10.0.0.2" }

Tk == <<"t", "k">>
Tx == <<"t", "x">>

Hdr(remote, token, auth, user) ==
    [ remoteAddress |-> remote, xApiToken |-> token,
      authorization |-> auth, xAuthUser |-> user ]

\* the header combinations clients send
Headers ==
    { Hdr("10.0.0.9", <<>>, <<>>, <<>>),
      Hdr("127.0.0.1", <<>>, <<>>, <<>>),
      Hdr("::1", <<>>, <<>>, <<>>),
      Hdr("10.0.0.9", Tk, <<>>, <<>>),
      Hdr("10.0.0.9", Tx, <<>>, <<>>),
      Hdr("10.0.0.9", <<>>, BearerPrefix \o Tk, <<>>),
      Hdr("10.0.0.9", <<>>, BearerPrefix \o <<" ">> \o Tk, <<>>),
      Hdr("10.0.0.9", <<>>, BearerPrefix \o Tx, <<>>),
      Hdr("10.0.0.9", <<>>, <<"b", "e", "a", "r", "e", "r", " ">> \o Tk, <<>>),
      Hdr("10.0.0.9", <<>>, Tk, <<>>),
      Hdr("10.0.0.9", Tx, BearerPrefix \o Tk, <<>>),
      Hdr("10.0.0.9", <<>>, <<>>, <<"u">>) }

Requests == { [ip |-> i, hdr |-> h] : i \in IPs, h \in Headers }

\* the cache and the token check are the same for every identity: the full
\* server is driven by the requests of one of them
MainRequests == { r \in Requests : r.ip = "10.0.0.1" }

\* the requests sent to /api/metrics/history: without credentials and with
\* the token in X-Api-Token
HistoryHeaders == { Hdr("10.0.0.9", <<>>, <<>>, <<>>), Hdr("10.0.0.9", Tk, <<>>, <<>>) }
HistoryRequests == { r \in Requests : r.hdr \in HistoryHeaders }

\* origins.  The text of an origin is kept whole, as one element of the
\* sequence; <<>> is a request without an Origin header
OriginApp == <<"https://monitor.example">>
OriginLocal == <<"http://localhost:5173">>
OriginOther == <<"https://other.example">>
Origins == { <<>>, OriginApp, OriginLocal, OriginOther }

\* values of the ALLOWED_ORIGINS variable: not set, blank, one origin between
\* blanks and commas
RawOrigins ==
    { <<>>,
      <<" ", ",", " ">>,
      <<",", " ">> \o OriginApp \o <<" ", ",">> }

\* the sources the log viewer knows
KnownSources == { "nginx", "nginx-error", "reportespiolis" }

\* request paths, as their segments
Paths ==
    { <<"api", "metrics">>, <<"api", "metrics", "history">>,
      <<"api", "logs", "nginx">>, <<"api", "logs", "doesnotexist">>,
      <<"health">> }

\* the GET requests clients send: without credentials, with the token, with
\* a wrong token, with the X-Auth-User header
HttpHeaders ==
    { Hdr("10.0.0.9", <<>>, <<>>, <<>>),
      Hdr("10.0.0.9", Tk, <<>>, <<>>),
      Hdr("10.0.0.9", <<>>, BearerPrefix \o Tx, <<>>),
      Hdr("10.0.0.9", <<>>, <<>>, <<"u">>) }

HttpRequests ==
    { [path |-> p, origin |-> o, ip |-> "10.0.0.1", hdr |-> h] :
        p \in Paths, o \in Origins, h \in HttpHeaders }

\* what si.time().uptime reports, in seconds
UptimeReadings ==
    { d * 86400 + h * 3600 + m * 60 + sec :
        d \in {0, 1, 2, MaxUptimeDays}, h \in {0, 1, 23}, m \in {0, 1, 59},
        sec \in {0, 1, 59} }

\* what si.mem() reports, in units of 100 000 000 bytes (the quotient of two
\* doubles is the same when both are multiplied by the same number, as long
\* as a double holds them exactly)
MemTotals == {1, 3, 40, 160, MaxMemTotal}
MemReadings ==
    UNION { { [total |-> t, available |-> a] : a \in 0 .. t } : t \in MemTotals }

\* the instants at which something happens: around the start, around the
\* expiry of a cache entry stamped 0 and around the end of a window begun at 0
TimePoints ==
    { t \in {0, 1} \cup { a - e : a \in {CACHE_TTL, RATE_LIMIT_WINDOW}, e \in {0, 1} } :
        t <= MaxTime }

----------------------------------------------------------------------------
(* Token check *)

API_TOKEN == Trim(env.MONITOR_API_TOKEN)
HAS_API_TOKEN == API_TOKEN # <<>>

\* the token check without the test that a token is configured
requireApiToken_NoConfigTest(req) ==
    LET h       == req.hdr
        isLocal == h.remoteAddress = "127.0.0.1" \/ h.remoteAddress = "::1"
        bearer  == IF StartsWith(h.authorization, BearerPrefix)
                   THEN Trim(Slice(h.authorization, 7)) ELSE <<>>
    IN  IF isLocal /\ env.NODE_ENV = "development" THEN 0
        ELSE IF h.xAuthUser # <<>> THEN 0
        ELSE IF h.xApiToken # API_TOKEN /\ bearer # API_TOKEN THEN 401
        ELSE 0

\* the token check demanding both the token header and the bearer token
requireApiToken_BothTokens(req) ==
    LET h       == req.hdr
        isLocal == h.remoteAddress = "127.0.0.1" \/ h.remoteAddress = "::1"
        bearer  == IF StartsWith(h.authorization, BearerPrefix)
                   THEN Trim(Slice(h.authorization, 7)) ELSE <<>>
    IN  IF isLocal /\ env.NODE_ENV = "development" THEN 0
        ELSE IF h.xAuthUser # <<>> THEN 0
        ELSE IF ~HAS_API_TOKEN THEN 503
        ELSE IF h.xApiToken # API_TOKEN \/ bearer # API_TOKEN THEN 401
        ELSE 0

\* 0 stands for next(); otherwise the HTTP status of the rejection
requireApiToken(req) ==
    LET h       == req.hdr
        isLocal == h.remoteAddress = "127.0.0.1" \/ h.remoteAddress = "::1"
        bearer  == IF StartsWith(h.authorization, BearerPrefix)
                   THEN Trim(Slice(h.authorization, 7)) ELSE <<>>
    IN  IF isLocal /\ env.NODE_ENV = "development" THEN 0
        ELSE IF h.xAuthUser # <<>> THEN 0
        ELSE IF ~HAS_API_TOKEN THEN 503
        ELSE IF h.xApiToken # API_TOKEN /\ bearer # API_TOKEN THEN 401
        ELSE 0

----------------------------------------------------------------------------
(* Cross-origin check *)

DEFAULT_ALLOWED_ORIGINS ==
    { <<"http://localhost:5173">>, <<"http://localhost:5174">>,
      <<"http://10.10.9.246:5173">>, <<"http://10.10.9.246:5174">> }

\* String.prototype.split(',')
RECURSIVE Split(_)
Split(s) ==
    IF \A k \in 1 .. Len(s) : s[k] # ","
    THEN <<s>>
    ELSE LET k == CHOOSE k \in 1 .. Len(s) :
                     s[k] = "," /\ \A j \in 1 .. (k - 1) : s[j] # ","
         IN  <<SubSeq(s, 1, k - 1)>> \o Split(SubSeq(s, k + 1, Len(s)))

\* rawAllowedOrigins.split(',').map(origin => origin.trim()).filter(Boolean)
envAllowedOrigins ==
    LET parts   == Split(env.ALLOWED_ORIGINS)
        trimmed == [k \in 1 .. Len(parts) |-> Trim(parts[k])]
        NotEmpty(o) == o # <<>>
    IN  SelectSeq(trimmed, NotEmpty)

\* the allow-list falling back on the defaults in every mode
allowedOriginsList_DefaultsAlways ==
    IF Len(envAllowedOrigins) > 0
    THEN { envAllowedOrigins[k] : k \in 1 .. Len(envAllowedOrigins) }
    ELSE DEFAULT_ALLOWED_ORIGINS

\* the elements of allowedOriginsList
allowedOriginsList ==
    IF Len(envAllowedOrigins) > 0
    THEN { envAllowedOrigins[k] : k \in 1 .. Len(envAllowedOrigins) }
    ELSE IF env.NODE_ENV = "development" THEN DEFAULT_ALLOWED_ORIGINS
    ELSE {}

\* the origin callback of cors(): TRUE for callback(null, true), FALSE for
\* callback(new Error('Origen no permitido por CORS'))
CorsAllows(origin) ==
    IF origin = <<>> THEN TRUE
    ELSE origin \in ALLOWED_ORIGINS

----------------------------------------------------------------------------
(* Rate limiter *)

Max(a, b) == IF a >= b THEN a ELSE b

\* Math.ceil(a / b) for b > 0
Ceil(a, b) == -((-a) \div b)

\* the limiter with the quota comparison off by one
checkRateLimit_StrictQuota(map, ip, t) ==
    LET fetched == IF ip \in DOMAIN map THEN map[ip]
                   ELSE [count |-> 0, resetAt |-> t + RATE_LIMIT_WINDOW]
        record  == IF t >= fetched.resetAt
                   THEN [count |-> 0, resetAt |-> t + RATE_LIMIT_WINDOW]
                   ELSE fetched
        stored  == [record EXCEPT !.count = @ + 1]
    IN  [ map        |-> [k \in DOMAIN map \cup {ip} |->
                            IF k = ip THEN stored ELSE map[k]],
          allowed    |-> stored.count < RATE_LIMIT_MAX_REQUESTS,
          retryAfter |-> Max(0, Ceil(stored.resetAt - t, 1000)) ]

\* the limiter resetting only strictly after resetAt
checkRateLimit_LateReset(map, ip, t) ==
    LET fetched == IF ip \in DOMAIN map THEN map[ip]
                   ELSE [count |-> 0, resetAt |-> t + RATE_LIMIT_WINDOW]
        record  == IF t > fetched.resetAt
                   THEN [count |-> 0, resetAt |-> t + RATE_LIMIT_WINDOW]
                   ELSE fetched
        stored  == [record EXCEPT !.count = @ + 1]
    IN  [ map        |-> [k \in DOMAIN map \cup {ip} |->
                            IF k = ip THEN stored ELSE map[k]],
          allowed    |-> stored.count <= RATE_LIMIT_MAX_REQUESTS,
          retryAfter |-> Max(0, Ceil(stored.resetAt - t, 1000)) ]

\* the limiter starting the window again at every rejected request
checkRateLimit_ExtendOnReject(map, ip, t) ==
    LET fetched == IF ip \in DOMAIN map THEN map[ip]
                   ELSE [count |-> 0, resetAt |-> t + RATE_LIMIT_WINDOW]
        record  == IF t >= fetched.resetAt
                   THEN [count |-> 0, resetAt |-> t + RATE_LIMIT_WINDOW]
                   ELSE fetched
        counted == [record EXCEPT !.count = @ + 1]
        stored  == IF counted.count > RATE_LIMIT_MAX_REQUESTS
                   THEN [counted EXCEPT !.resetAt = t + RATE_LIMIT_WINDOW]
                   ELSE counted
    IN  [ map        |-> [k \in DOMAIN map \cup {ip} |->
                            IF k = ip THEN stored ELSE map[k]],
          allowed    |-> stored.count <= RATE_LIMIT_MAX_REQUESTS,
          retryAfter |-> Max(0, Ceil(stored.resetAt - t, 1000)) ]

\* the limiter rounding the remaining time down to whole seconds
checkRateLimit_FloorSeconds(map, ip, t) ==
    LET fetched == IF ip \in DOMAIN map THEN map[ip]
                   ELSE [count |-> 0, resetAt |-> t + RATE_LIMIT_WINDOW]
        record  == IF t >= fetched.resetAt
                   THEN [count |-> 0, resetAt |-> t + RATE_LIMIT_WINDOW]
                   ELSE fetched
        stored  == [record EXCEPT !.count = @ + 1]
    IN  [ map        |-> [k \in DOMAIN map \cup {ip} |->
                            IF k = ip THEN stored ELSE map[k]],
          allowed    |-> stored.count <= RATE_LIMIT_MAX_REQUESTS,
          retryAfter |-> Max(0, (stored.resetAt - t) \div 1000) ]

\* the limiter keeping one record for every caller, as when req.ip is not set
checkRateLimit_SharedRecord(map, ip, t) ==
    LET fetched == IF "unknown" \in DOMAIN map THEN map["unknown"]
                   ELSE [count |-> 0, resetAt |-> t + RATE_LIMIT_WINDOW]
        record  == IF t >= fetched.resetAt
                   THEN [count |-> 0, resetAt |-> t + RATE_LIMIT_WINDOW]
                   ELSE fetched
        stored  == [record EXCEPT !.count = @ + 1]
    IN  [ map        |-> [k \in DOMAIN map \cup {"unknown", ip} |-> stored],
          allowed    |-> stored.count <= RATE_LIMIT_MAX_REQUESTS,
          retryAfter |-> Max(0, Ceil(stored.resetAt - t, 1000)) ]

checkRateLimit(map, ip, t) ==
    LET fetched == IF ip \in DOMAIN map THEN map[ip]
                   ELSE [count |-> 0, resetAt |-> t + RATE_LIMIT_WINDOW]
        record  == IF t >= fetched.resetAt
                   THEN [count |-> 0, resetAt |-> t + RATE_LIMIT_WINDOW]
                   ELSE fetched
        stored  == [record EXCEPT !.count = @ + 1]
    IN  [ map        |-> [k \in DOMAIN map \cup {ip} |->
                            IF k = ip THEN stored ELSE map[k]],
          allowed    |-> stored.count <= RATE_LIMIT_MAX_REQUESTS,
          retryAfter |-> Max(0, Ceil(stored.resetAt - t, 1000)) ]

\* the two middlewares chained the other way round
Admission_TokenFirst(map, req, t) ==
    LET result == checkRateLimit(map, req.ip, t)
        auth   == requireApiToken(req)
    IN  IF auth # 0
        THEN [map |-> map, status |-> auth, retryAfter |-> -1]
        ELSE [ map        |-> result.map,
               status     |-> IF ~result.allowed THEN 429 ELSE 0,
               retryAfter |-> result.retryAfter ]

\* rateLimitMiddleware followed by requireApiToken, as the routes chain them
Admission(map, req, t) ==
    LET result == checkRateLimit(map, req.ip, t)
    IN  [ map        |-> result.map,
          status     |-> IF ~result.allowed THEN 429 ELSE requireApiToken(req),
          retryAfter |-> result.retryAfter ]

\* the table after n requests of ip that arrive in the same millisecond t:
\* the first one creates or resets the record as needed; each further one
\* finds t < resetAt (resetAt is at least what the first left) and only
\* increments count
RateN(map, ip, t, n) ==
    IF n = 0 THEN map
    ELSE [checkRateLimit(map, ip, t).map EXCEPT ![ip].count = @ + (n - 1)]

\* the cleanup dropping the records whose window is still open
SweepMap_Open(map, t) ==
    [k \in { i \in DOMAIN map : ~(t < map[i].resetAt) } |-> map[k]]

\* the cleanup emptying the table
SweepMap_Clear(map, t) == [k \in {} |-> map[k]]

\* the cleanup interval's callback
SweepMap(map, t) ==
    [k \in { i \in DOMAIN map : ~(t >= map[i].resetAt) } |-> map[k]]

----------------------------------------------------------------------------
(* Metrics cache *)

\* the freshness test with the comparison turned around
IsFresh_Inverted(cache, t) == cache.data # <<>> /\ (t - cache.timestamp) > CACHE_TTL

\* the freshness test that still accepts an entry of age CACHE_TTL
IsFresh_Lax(cache, t) == cache.data # <<>> /\ (t - cache.timestamp) <= CACHE_TTL

IsFresh(cache, t) == cache.data # <<>> /\ (t - cache.timestamp) < CACHE_TTL

\* the object calculateMetrics() resolves to, reduced to its timestamp
Snapshot(t) == [timestamp |-> t]

\* a cache hit that sends the snapshot with the time of the request
CachedResponse_Restamped(cache, t) == [cache.data[1] EXCEPT !.timestamp = t]

\* what a cache hit sends
CachedResponse(cache, t) == cache.data[1]

\* the cache entry a finished recompute stores
StoreCache(data, startedAt, t) == [data |-> <<data>>, timestamp |-> startedAt]

----------------------------------------------------------------------------
(* Responses *)

DigitChars == <<"0", "1", "2", "3", "4", "5", "6", "7", "8", "9">>

\* String(n) for an integer n >= 0: its decimal digits
RECURSIVE Digits(_)
Digits(n) ==
    IF n < 10 THEN <<DigitChars[n + 1]>>
    ELSE Digits(n \div 10) \o <<DigitChars[(n % 10) + 1]>>

\* new Date(t).toISOString(): a text that names the instant t
ToISOString(t) == Digits(t) \o <<"Z">>

\* res.json(obj).  A property of obj is <<v>> when its value is v and <<>>
\* when its value is undefined; JSON.stringify leaves the undefined ones out
Json(obj) == [k \in { f \in DOMAIN obj : obj[f] # <<>> } |-> obj[k][1]]

NoBody == [k \in {} |-> 0]

\* the body rateLimitMiddleware sends with 429
RateLimitedBody(retryAfter) ==
    Json([ error      |-> <<"Too many requests">>,
           message    |-> <<"Has excedido el limite de peticiones. Por favor espera un momento.">>,
           retryAfter |-> <<retryAfter>> ])

\* the body requireApiToken sends with 503 and with 401
TokenRejectionBody(status) ==
    Json([ error   |-> <<"Unauthorized">>,
           message |-> <<IF status = 503 THEN "MONITOR_API_TOKEN no configurado"
                         ELSE "Token invalido">> ])

\* what calculateMetrics() may reject with: an Error with a message, an Error
\* with an empty message, a value that is not an Error
Raised ==
    { [isError |-> TRUE, message |-> "EACCES: permission denied, open '/proc/stat'"],
      [isError |-> TRUE, message |-> ""],
      [isError |-> FALSE, message |-> "timeout"] }

MainRaised == { r \in Raised : r.isError /\ r.message # "" }

\* the body GET /api/metrics/history sends when no valid limit is given
HistoryBody == [cpu |-> <<>>, memory |-> <<>>, disk |-> <<>>, limit |-> 20]

\* the error handler's answer to the error of the origin callback
CorsForbiddenBody ==
    Json([ error   |-> <<"CORS forbidden">>,
           message |-> <<"Origen no permitido por CORS">> ])

\* the catch-all of /api
NotFoundBody ==
    Json([ error   |-> <<"Not found">>,
           message |-> <<"Ruta API desconocida">> ])

\* GET /health
HealthBody(t) ==
    Json([ status |-> <<"ok">>, timestamp |-> <<ToISOString(t)>> ])

\* the catch block sending the error text in every mode
MetricsErrorBody_AlwaysDetailed(raised, t) ==
    LET errorMessage == IF raised.isError THEN raised.message
                        ELSE "Error desconocido"
    IN  Json([ error     |-> <<"Error obteniendo metricas del sistema">>,
               message   |-> <<errorMessage>>,
               timestamp |-> <<ToISOString(t)>> ])

\* the body the catch block of GET /api/metrics sends with 500
MetricsErrorBody(raised, t) ==
    LET errorMessage == IF raised.isError THEN raised.message
                        ELSE "Error desconocido"
    IN  Json([ error     |-> <<"Error obteniendo metricas del sistema">>,
               message   |-> IF env.NODE_ENV = "development"
                             THEN <<errorMessage>> ELSE <<>>,
               timestamp |-> <<ToISOString(t)>> ])

\* body and Retry-After header of the response that ends a rejected admission
RejectBody(adm) ==
    IF adm.status = 429 THEN RateLimitedBody(adm.retryAfter)
    ELSE TokenRejectionBody(adm.status)

RetryAfterHeader(adm) ==
    IF adm.status = 429 THEN Digits(adm.retryAfter) ELSE <<>>

----------------------------------------------------------------------------
(* The snapshot: what calculateMetrics() makes of the host's readings *)

\* the uptime label with the hours counted over the whole uptime
formatUptime_HoursOfTotal(seconds) ==
    LET days    == seconds \div 86400
        hours   == seconds \div 3600
        minutes == (seconds % 3600) \div 60
    IN  IF days > 0
        THEN Digits(days) \o <<"d", " ">> \o Digits(hours) \o <<"h", " ">>
               \o Digits(minutes) \o <<"m">>
        ELSE IF hours > 0
        THEN Digits(hours) \o <<"h", " ">> \o Digits(minutes) \o <<"m">>
        ELSE Digits(minutes) \o <<"m">>

formatUptime(seconds) ==
    LET days    == seconds \div 86400
        hours   == (seconds % 86400) \div 3600
        minutes == (seconds % 3600) \div 60
    IN  IF days > 0
        THEN Digits(days) \o <<"d", " ">> \o Digits(hours) \o <<"h", " ">>
               \o Digits(minutes) \o <<"m">>
        ELSE IF hours > 0
        THEN Digits(hours) \o <<"h", " ">> \o Digits(minutes) \o <<"m">>
        ELSE Digits(minutes) \o <<"m">>

\* Numbers are IEEE 754 doubles.  A positive double is a significand of 53
\* bits, the first of them 1, written most significant bit first, and the
\* number frac of those bits (and of the zeros before them, when frac > 53)
\* that stand after the binary point: its value is the significand read as
\* an integer, divided by 2^frac
SignificandBits == 53

\* the least e >= 0 with a * 2^e >= b, for 0 < a
RECURSIVE Shift(_, _)
Shift(a, b) == IF a >= b THEN 0 ELSE 1 + Shift(2 * a, b)

RECURSIVE Pow2(_)
Pow2(n) == IF n = 0 THEN 1 ELSE 2 * Pow2(n - 1)

\* the bits of the integer n > 0, and of 0 the empty sequence
RECURSIVE IntToBits(_)
IntToBits(n) == IF n = 0 THEN <<>> ELSE IntToBits(n \div 2) \o <<n % 2>>

\* the integer whose bits are the first n of bits
RECURSIVE BitsValue(_, _)
BitsValue(bits, n) == IF n = 0 THEN 0 ELSE 2 * BitsValue(bits, n - 1) + bits[n]

BitsToInt(bits) == BitsValue(bits, Len(bits))

\* bits + 1; one bit longer when every bit is 1
Increment(bits) ==
    LET zeros == { k \in 1 .. Len(bits) : bits[k] = 0 }
    IN  IF zeros = {}
        THEN <<1>> \o [k \in 1 .. Len(bits) |-> 0]
        ELSE LET z == CHOOSE k \in zeros : \A j \in zeros : j <= k
             IN  [k \in 1 .. Len(bits) |->
                    IF k < z THEN bits[k] ELSE IF k = z THEN 1 ELSE 0]

\* the n bits of the integer v < 2^n, zeros in front
PadBits(v, n) ==
    LET b == IntToBits(v)
    IN  [k \in 1 .. n |-> IF k <= n - Len(b) THEN 0 ELSE b[k - (n - Len(b))]]

\* bits * c for a small integer c > 0 and more than 36 bits, the first of
\* them 1: the product is worked out on three pieces of the number, the two
\* lower ones of 18 bits
MulBits(bits, c) ==
    LET n  == Len(bits)
        x2 == BitsToInt(SubSeq(bits, 1, n - 36))
        x1 == BitsToInt(SubSeq(bits, n - 35, n - 18))
        x0 == BitsToInt(SubSeq(bits, n - 17, n))
        p0 == x0 * c
        p1 == x1 * c + p0 \div Pow2(18)
        p2 == x2 * c + p1 \div Pow2(18)
    IN  IntToBits(p2) \o PadBits(p1 % Pow2(18), 18) \o PadBits(p0 % Pow2(18), 18)

\* round to nearest, ties to even: the double nearest to the number whose
\* bits are kept followed by rest, where above tells that the number is
\* greater still than those bits say
RoundToDouble(kept, rest, above, frac) ==
    LET half == rest # <<>> /\ rest[1] = 1
        more == above \/ \E k \in 2 .. Len(rest) : rest[k] = 1
        up   == half /\ (more \/ kept[Len(kept)] = 1)
        bits == IF up THEN Increment(kept) ELSE kept
    IN  IF Len(bits) > SignificandBits
        THEN [bits |-> SubSeq(bits, 1, SignificandBits), frac |-> frac - 1]
        ELSE [bits |-> bits, frac |-> frac]

\* the next 13 bits of the binary expansion of r / b, as an integer, and the
\* remainder left after them, for 0 <= r < b < 2^18
DivChunk(r, b) ==
    [ q |-> (r * Pow2(13)) \div b, r |-> (r * Pow2(13)) % b ]

\* a / b for integers 0 < a <= b < 2^18: the first bit of the quotient and
\* four times 13 more, rounded on what is left
FloatDiv(a, b) ==
    LET e   == Shift(a, b)
        c1  == DivChunk(a * Pow2(e) - b, b)
        c2  == DivChunk(c1.r, b)
        c3  == DivChunk(c2.r, b)
        c4  == DivChunk(c3.r, b)
        rem == c4.r
    IN  RoundToDouble(<<1>> \o PadBits(c1.q, 13) \o PadBits(c2.q, 13)
                          \o PadBits(c3.q, 13) \o PadBits(c4.q, 13),
                      <<IF 2 * rem >= b THEN 1 ELSE 0>>,
                      2 * rem # b /\ rem # 0, e + 52)

\* x * c for a double x > 0 and a small integer c > 0
FloatMul(x, c) ==
    LET product == MulBits(x.bits, c)
        k       == Len(product) - SignificandBits
    IN  RoundToDouble(SubSeq(product, 1, SignificandBits),
                      SubSeq(product, SignificandBits + 1, Len(product)),
                      FALSE, x.frac - k)

\* Math.round(x) for a double 0 < x < 2^53: the integer nearest to x, and
\* the greater of the two when x lies half-way
MathRound(x) ==
    LET whole == SignificandBits - x.frac
    IN  (IF whole <= 0 THEN 0 ELSE BitsToInt(SubSeq(x.bits, 1, whole)))
        + (IF whole < 0 \/ whole >= SignificandBits THEN 0
           ELSE x.bits[whole + 1])

\* the memory field of the snapshot, for 0 <= mem.available <= mem.total
\* and 0 < mem.total:
\* Math.round(((mem.total - mem.available) / mem.total) * 100)
memoryPercent(mem) ==
    LET memoryUsedBytes == mem.total - mem.available
    IN  IF memoryUsedBytes = 0 THEN 0
        ELSE MathRound(FloatMul(FloatDiv(memoryUsedBytes, mem.total), 100))

----------------------------------------------------------------------------
(* Bookkeeping of what has been observed *)

\* status 0: nothing sent (yet).  cacheControl, retryHdr and body are the
\* Cache-Control header, the Retry-After header and the JSON body
NoResponse ==
    [ route |-> "none", ip |-> "none", status |-> 0, kind |-> "none",
      ts |-> -1, start |-> -1, retryAfter |-> -1, calls |-> 0,
      cacheControl |-> "", retryHdr |-> <<>>, body |-> NoBody, source |-> "",
      origin |-> <<>> ]

\* the response object of a request under /api once the no-store middleware
\* has run
ApiResponse == [NoResponse EXCEPT !.cacheControl = "no-store"]

\* reference fixed window of an identity: it begins with the first call at
\* or after the end of the previous one and lasts RATE_LIMIT_WINDOW
WinStep(w, t, k, allowed) ==
    IF w.n = 0 \/ t >= w.start + RATE_LIMIT_WINDOW
    THEN [start |-> t, n |-> k, allowed |-> allowed]
    ELSE [start |-> w.start, n |-> w.n + k, allowed |-> allowed]

\* one observed interval of RATE_LIMIT_WINDOW ms, which starts at an instant
\* chosen freely; n counts the calls of one identity inside it
NoRoll == [on |-> FALSE, ip |-> "none", start |-> 0, n |-> 0, allowed |-> TRUE]

RollStep(r, ip, t, k, allowed) ==
    IF r.on /\ ip = r.ip /\ t < r.start + RATE_LIMIT_WINDOW
    THEN [r EXCEPT !.n = @ + k, !.allowed = allowed]
    ELSE r

\* the instants at which 429 responses said a retry would pass.  Of an
\* identity, due holds t + retryAfter * 1000 of every rejection at t that no
\* later request at or after that instant has tested yet; cleanDue holds those
\* among them after which the identity has had no request admitted.
\* firstAllowed: whether the first call of the latest step was admitted;
\* honoured: the instants of cleanDue that the latest step tested
NoRetry ==
    [ on |-> FALSE, due |-> [i \in IPs |-> {}], cleanDue |-> [i \in IPs |-> {}],
      firstAllowed |-> TRUE, honoured |-> {} ]

\* first, final: what checkRateLimit returned to the first and to the last of
\* the calls an identity made at t
RetryStep(rt, ip, t, first, final) ==
    IF ~rt.on THEN rt
    ELSE LET new == IF final.allowed THEN {}
                    ELSE { t + final.retryAfter * 1000 }
         IN  [ on           |-> TRUE,
               due          |-> [rt.due EXCEPT ![ip] =
                                    { d \in @ : t < d } \cup new],
               cleanDue     |-> [rt.cleanDue EXCEPT ![ip] =
                                    (IF first.allowed THEN {}
                                     ELSE { d \in @ : t < d }) \cup new],
               firstAllowed |-> first.allowed,
               honoured     |-> { d \in rt.cleanDue[ip] : t >= d } ]

\* the table that receives the same calls and is never swept, with what
\* checkRateLimit returned for the latest call on it (ref) and on the real
\* table (real)
\* swept: the identity's record had been removed from the real table when
\* the latest calls arrived
NoShadow ==
    [ on |-> FALSE, map |-> << >>, swept |-> FALSE,
      real |-> [allowed |-> TRUE, retryAfter |-> 0],
      ref |-> [allowed |-> TRUE, retryAfter |-> 0] ]

ShadowStep(sh, map, ip, t, n, final) ==
    IF ~sh.on THEN sh
    ELSE LET res == checkRateLimit(RateN(sh.map, ip, t, n - 1), ip, t)
         IN  [ on    |-> TRUE,
               map   |-> res.map,
               swept |-> ip \in DOMAIN sh.map /\ ip \notin DOMAIN map,
               real  |-> [allowed |-> final.allowed, retryAfter |-> final.retryAfter],
               ref   |-> [allowed |-> res.allowed, retryAfter |-> res.retryAfter] ]

\* the Origin header of a request; the requests that are given without one
\* carry none
OriginOf(req) == IF "origin" \in DOMAIN req THEN req.origin ELSE <<>>

\* the front end and the host readings while only the backend is looked at
NoHost == [on |-> FALSE]
NoPager == [on |-> FALSE]
NoViewer == [on |-> FALSE]
NoMonitor == [on |-> FALSE]

\* the sequence s without its i-th element
RemoveAt(s, i) == SubSeq(s, 1, i - 1) \o SubSeq(s, i + 1, Len(s))

----------------------------------------------------------------------------
(* The state machine *)

Init ==
    /\ now = 0
    /\ env \in [MONITOR_API_TOKEN : RawTokens, NODE_ENV : NodeEnvs,
                 ALLOWED_ORIGINS : {<<>>}]
    /\ ALLOWED_ORIGINS = allowedOriginsList
    /\ rateLimitMap = << >>
    /\ metricsCache = [data |-> <<>>, timestamp |-> 0]
    /\ pending = <<>>
    /\ sweepDue = RATE_LIMIT_CLEANUP_INTERVAL
    /\ last = NoResponse
    /\ win = [i \in IPs |-> [start |-> 0, n |-> 0, allowed |-> TRUE]]
    /\ roll = NoRoll
    /\ nreq = 0
    /\ retry = NoRetry
    /\ shadow = NoShadow
    /\ host = NoHost
    /\ pager = NoPager
    /\ viewer = NoViewer
    /\ monitor = NoMonitor

\* GET /api/metrics: rateLimitMiddleware, requireApiToken and the handler up
\* to its response or to `await calculateMetrics()`
MetricsRequest(req) ==
    LET adm    == Admission(rateLimitMap, req, now)
        result == checkRateLimit(rateLimitMap, req.ip, now)
    IN  /\ nreq < MaxRequests
        /\ nreq' = nreq + 1
        /\ rateLimitMap' = adm.map
        /\ win' = [win EXCEPT ![req.ip] = WinStep(@, now, 1, adm.status # 429)]
        /\ roll' = RollStep(roll, req.ip, now, 1, adm.status # 429)
        /\ retry' = RetryStep(retry, req.ip, now, result, result)
        /\ shadow' = ShadowStep(shadow, rateLimitMap, req.ip, now, 1, result)
        /\ UNCHANGED <<now, env, ALLOWED_ORIGINS, host, pager, viewer, monitor, sweepDue>>
        /\ IF adm.status # 0
           THEN /\ last' = [ApiResponse EXCEPT !.route = "metrics", !.ip = req.ip, !.calls = 1,
                              !.origin = OriginOf(req),
                              !.status = adm.status, !.kind = "reject",
                              !.start = now,
                              !.retryAfter = IF adm.status = 429
                                             THEN adm.retryAfter ELSE -1,
                              !.retryHdr = RetryAfterHeader(adm),
                              !.body = RejectBody(adm)]
                /\ UNCHANGED <<metricsCache, pending>>
           ELSE IF IsFresh(metricsCache, now)
           THEN /\ last' = [ApiResponse EXCEPT !.route = "metrics", !.ip = req.ip, !.calls = 1,
                              !.origin = OriginOf(req),
                              !.status = 200, !.kind = "hit",
                              !.ts = CachedResponse(metricsCache, now).timestamp,
                              !.start = now,
                              !.body = CachedResponse(metricsCache, now)]
                /\ UNCHANGED <<metricsCache, pending>>
           ELSE /\ Len(pending) < MaxInFlight
                /\ pending' = Append(pending,
                       [now |-> now, ip |-> req.ip,
                        seenTs |-> IF metricsCache.data = <<>> THEN -1
                                   ELSE metricsCache.data[1].timestamp,
                        seenStamp |-> metricsCache.timestamp])
                /\ last' = [ApiResponse EXCEPT !.route = "metrics", !.ip = req.ip, !.calls = 1,
                              !.origin = OriginOf(req),
                              !.kind = "await", !.start = now]
                /\ UNCHANGED metricsCache

\* a handler that stores its snapshot only if no handler that started later
\* has stored one
MetricsResolve_KeepNewest(i) ==
    /\ i \in 1 .. Len(pending)
    /\ LET data == Snapshot(now)
       IN  /\ metricsCache' = IF metricsCache.data # <<>>
                                  /\ metricsCache.timestamp > pending[i].now
                               THEN metricsCache
                               ELSE StoreCache(data, pending[i].now, now)
           /\ last' = [ApiResponse EXCEPT !.route = "metrics", !.ip = pending[i].ip,
                         !.status = 200, !.kind = "computed",
                         !.ts = data.timestamp, !.start = pending[i].now,
                         !.body = data]
    /\ pending' = RemoveAt(pending, i)
    /\ UNCHANGED <<now, env, ALLOWED_ORIGINS, host, pager, viewer, monitor, rateLimitMap,
                   sweepDue, win, roll, nreq, retry, shadow>>

\* a handler that stores its snapshot only if the slot is still as it was
\* when the handler tested it
MetricsResolve_SkipIfChanged(i) ==
    /\ i \in 1 .. Len(pending)
    /\ LET data == Snapshot(now)
       IN  /\ metricsCache' = IF metricsCache.timestamp # pending[i].seenStamp
                               THEN metricsCache
                               ELSE StoreCache(data, pending[i].now, now)
           /\ last' = [ApiResponse EXCEPT !.route = "metrics", !.ip = pending[i].ip,
                         !.status = 200, !.kind = "computed",
                         !.ts = data.timestamp, !.start = pending[i].now,
                         !.body = data]
    /\ pending' = RemoveAt(pending, i)
    /\ UNCHANGED <<now, env, ALLOWED_ORIGINS, host, pager, viewer, monitor, rateLimitMap,
                   sweepDue, win, roll, nreq, retry, shadow>>

\* a handler whose snapshot carries the time at which its request started
MetricsResolve_StampedAtStart(i) ==
    /\ i \in 1 .. Len(pending)
    /\ LET data == Snapshot(pending[i].now)
       IN  /\ metricsCache' = StoreCache(data, pending[i].now, now)
           /\ last' = [ApiResponse EXCEPT !.route = "metrics", !.ip = pending[i].ip,
                         !.status = 200, !.kind = "computed",
                         !.ts = data.timestamp, !.start = pending[i].now,
                         !.body = data]
    /\ pending' = RemoveAt(pending, i)
    /\ UNCHANGED <<now, env, ALLOWED_ORIGINS, host, pager, viewer, monitor, rateLimitMap,
                   sweepDue, win, roll, nreq, retry, shadow>>

\* calculateMetrics() resolves: the handler stores the snapshot and answers
MetricsResolve(i) ==
    /\ i \in 1 .. Len(pending)
    /\ LET data == Snapshot(now)
       IN  /\ metricsCache' = StoreCache(data, pending[i].now, now)
           /\ last' = [ApiResponse EXCEPT !.route = "metrics", !.ip = pending[i].ip,
                         !.status = 200, !.kind = "computed",
                         !.ts = data.timestamp, !.start = pending[i].now,
                         !.body = data]
    /\ pending' = RemoveAt(pending, i)
    /\ UNCHANGED <<now, env, ALLOWED_ORIGINS, host, pager, viewer, monitor, rateLimitMap, sweepDue, win, roll, nreq, retry, shadow>>

\* a catch block that falls back on the cached snapshot
MetricsReject_ServeStale(i, raised) ==
    /\ i \in 1 .. Len(pending)
    /\ last' = IF metricsCache.data # <<>>
               THEN [ApiResponse EXCEPT !.route = "metrics", !.ip = pending[i].ip,
                       !.calls = 1, !.status = 200, !.kind = "failed",
                       !.ts = metricsCache.data[1].timestamp,
                       !.start = pending[i].now,
                       !.body = metricsCache.data[1]]
               ELSE [ApiResponse EXCEPT !.route = "metrics", !.ip = pending[i].ip,
                       !.calls = 1, !.status = 500, !.kind = "failed",
                       !.start = pending[i].now,
                       !.body = MetricsErrorBody(raised, now)]
    /\ pending' = RemoveAt(pending, i)
    /\ UNCHANGED <<now, env, ALLOWED_ORIGINS, host, pager, viewer, monitor, rateLimitMap, metricsCache, sweepDue, win, roll, nreq,
                   retry, shadow>>

\* calculateMetrics() rejects: the catch block answers 500
MetricsReject(i, raised) ==
    /\ i \in 1 .. Len(pending)
    /\ last' = [ApiResponse EXCEPT !.route = "metrics", !.ip = pending[i].ip,
                  !.status = 500, !.kind = "failed", !.start = pending[i].now,
                  !.body = MetricsErrorBody(raised, now)]
    /\ pending' = RemoveAt(pending, i)
    /\ UNCHANGED <<now, env, ALLOWED_ORIGINS, host, pager, viewer, monitor, rateLimitMap, metricsCache, sweepDue, win, roll, nreq,
                   retry, shadow>>

\* the history route counting its requests in a record of its own
HistoryCalls_OwnRecord(req, n) ==
    LET key    == [req EXCEPT !.ip = "history"]
        before == RateN(rateLimitMap, key.ip, now, n - 1)
        adm    == Admission(before, key, now)
        first  == checkRateLimit(rateLimitMap, key.ip, now)
        final  == checkRateLimit(before, key.ip, now)
    IN  /\ nreq' = nreq + 1
        /\ retry' = RetryStep(retry, req.ip, now, first, final)
        /\ shadow' = ShadowStep(shadow, rateLimitMap, req.ip, now, n, final)
        /\ rateLimitMap' = adm.map
        /\ win' = [win EXCEPT ![req.ip] = WinStep(@, now, n, adm.status # 429)]
        /\ roll' = RollStep(roll, req.ip, now, n, adm.status # 429)
        /\ last' = [ApiResponse EXCEPT !.route = "history", !.ip = req.ip, !.calls = n,
                      !.origin = OriginOf(req),
                      !.status = IF adm.status = 0 THEN 200 ELSE adm.status,
                      !.kind = IF adm.status = 0 THEN "history" ELSE "reject",
                      !.start = now,
                      !.retryAfter = IF adm.status = 429
                                     THEN adm.retryAfter ELSE -1,
                      !.retryHdr = RetryAfterHeader(adm),
                      !.body = IF adm.status = 0 THEN HistoryBody
                               ELSE RejectBody(adm)]
        /\ UNCHANGED <<now, env, ALLOWED_ORIGINS, host, pager, viewer, monitor,
                       metricsCache, pending, sweepDue>>

\* GET /api/metrics/history, n times in the same millisecond with the same
\* headers; the response recorded is that of the last of them
HistoryCalls(req, n) ==
    LET before == RateN(rateLimitMap, req.ip, now, n - 1)
        adm    == Admission(before, req, now)
        first  == checkRateLimit(rateLimitMap, req.ip, now)
        final  == checkRateLimit(before, req.ip, now)
    IN  /\ nreq' = nreq + 1
        /\ retry' = RetryStep(retry, req.ip, now, first, final)
        /\ shadow' = ShadowStep(shadow, rateLimitMap, req.ip, now, n, final)
        /\ rateLimitMap' = adm.map
        /\ win' = [win EXCEPT ![req.ip] = WinStep(@, now, n, adm.status # 429)]
        /\ roll' = RollStep(roll, req.ip, now, n, adm.status # 429)
        /\ last' = [ApiResponse EXCEPT !.route = "history", !.ip = req.ip, !.calls = n,
                      !.origin = OriginOf(req),
                      !.status = IF adm.status = 0 THEN 200 ELSE adm.status,
                      !.kind = IF adm.status = 0 THEN "history" ELSE "reject",
                      !.start = now,
                      !.retryAfter = IF adm.status = 429
                                     THEN adm.retryAfter ELSE -1,
                      !.retryHdr = RetryAfterHeader(adm),
                      !.body = IF adm.status = 0 THEN HistoryBody
                               ELSE RejectBody(adm)]
        /\ UNCHANGED <<now, env, ALLOWED_ORIGINS, host, pager, viewer, monitor, metricsCache, pending, sweepDue>>

HistoryRequest(req, n) == nreq < MaxRequests /\ HistoryCalls(req, n)

\* the route a path is dispatched to
RouteOf(path) ==
    IF path = <<"api", "metrics">> THEN "metrics"
    ELSE IF path = <<"api", "metrics", "history">> THEN "history"
    ELSE IF path = <<"health">> THEN "health"
    ELSE IF Len(path) = 3 /\ path[1] = "api" /\ path[2] = "logs" THEN "logs"
    ELSE "api"

\* the error handler answers a request whose origin cors() refused; no
\* middleware registered after cors() has run
CorsReject(r) ==
    /\ ~CorsAllows(r.origin)
    /\ last' = [NoResponse EXCEPT !.route = RouteOf(r.path), !.ip = r.ip,
                  !.status = 403, !.kind = "cors", !.start = now,
                  !.body = CorsForbiddenBody,
                  !.origin = r.origin,
                  !.source = IF RouteOf(r.path) = "logs" THEN r.path[3] ELSE ""]
    /\ UNCHANGED <<now, env, ALLOWED_ORIGINS, host, pager, viewer, monitor, rateLimitMap, metricsCache, pending, sweepDue, win,
                   roll, nreq, retry, shadow>>

\* a catch-all that answers with an empty page
ApiNotFound_EmptyPage(r) ==
    /\ CorsAllows(r.origin)
    /\ RouteOf(r.path) \in {"logs", "api"}
    /\ last' = [ApiResponse EXCEPT !.route = RouteOf(r.path), !.ip = r.ip,
                  !.status = 200, !.kind = "notfound", !.start = now,
                  !.body = [lines |-> <<>>, hasMore |-> FALSE],
                  !.origin = r.origin,
                  !.source = IF RouteOf(r.path) = "logs" THEN r.path[3] ELSE ""]
    /\ UNCHANGED <<now, env, ALLOWED_ORIGINS, host, pager, viewer, monitor, rateLimitMap, metricsCache, pending,
                   sweepDue, win, roll, nreq, retry, shadow>>

\* a path under /api that no route matches: the catch-all
ApiNotFound(r) ==
    /\ CorsAllows(r.origin)
    /\ RouteOf(r.path) \in {"logs", "api"}
    /\ last' = [ApiResponse EXCEPT !.route = RouteOf(r.path), !.ip = r.ip,
                  !.status = 404, !.kind = "notfound", !.start = now,
                  !.body = NotFoundBody,
                  !.origin = r.origin,
                  !.source = IF RouteOf(r.path) = "logs" THEN r.path[3] ELSE ""]
    /\ UNCHANGED <<now, env, ALLOWED_ORIGINS, host, pager, viewer, monitor, rateLimitMap, metricsCache, pending, sweepDue, win,
                   roll, nreq, retry, shadow>>

\* the health handler without its Cache-Control header
Health_Cacheable(r) ==
    /\ CorsAllows(r.origin)
    /\ RouteOf(r.path) = "health"
    /\ last' = [NoResponse EXCEPT !.route = "health", !.ip = r.ip,
                  !.origin = r.origin,
                  !.status = 200, !.kind = "health", !.start = now,
                  !.body = HealthBody(now)]
    /\ UNCHANGED <<now, env, ALLOWED_ORIGINS, host, pager, viewer, monitor, rateLimitMap, metricsCache, pending, sweepDue, win,
                   roll, nreq, retry, shadow>>

\* GET /health
Health(r) ==
    /\ CorsAllows(r.origin)
    /\ RouteOf(r.path) = "health"
    /\ last' = [NoResponse EXCEPT !.route = "health", !.ip = r.ip,
                  !.origin = r.origin,
                  !.status = 200, !.kind = "health", !.start = now,
                  !.cacheControl = "no-store",
                  !.body = HealthBody(now)]
    /\ UNCHANGED <<now, env, ALLOWED_ORIGINS, host, pager, viewer, monitor, rateLimitMap, metricsCache, pending, sweepDue, win,
                   roll, nreq, retry, shadow>>

\* a GET request through the middleware chain: cors(), the no-store
\* middleware of /api, then the route its path matches
Http(r) ==
    \/ CorsReject(r)
    \/ /\ CorsAllows(r.origin)
       /\ RouteOf(r.path) = "metrics"
       /\ MetricsRequest(r)
    \/ /\ CorsAllows(r.origin)
       /\ RouteOf(r.path) = "history"
       /\ HistoryRequest(r, 1)
    \/ ApiNotFound(r)
    \/ Health(r)

\* the setInterval callback that drops elapsed records
Sweep ==
    /\ now >= sweepDue
    /\ rateLimitMap' = SweepMap(rateLimitMap, now)
    /\ sweepDue' = now + RATE_LIMIT_CLEANUP_INTERVAL
    /\ UNCHANGED <<now, env, ALLOWED_ORIGINS, host, pager, viewer, monitor, metricsCache, pending, last, win, roll, nreq,
                   retry, shadow>>

\* time passes; observe may start the observed interval at the new instant
Tick(t, observe) ==
    /\ t > now
    /\ now' = t
    /\ roll' = IF observe \in IPs /\ ~roll.on
               THEN [NoRoll EXCEPT !.on = TRUE, !.ip = observe, !.start = t]
               ELSE roll
    /\ UNCHANGED <<env, ALLOWED_ORIGINS, host, pager, viewer, monitor, rateLimitMap, metricsCache, pending, sweepDue, last,
                   win, nreq, retry, shadow>>

Next ==
    \/ \E req \in MainRequests : MetricsRequest(req)
    \/ \E i \in 1 .. MaxInFlight : MetricsResolve(i)
    \/ \E i \in 1 .. MaxInFlight, raised \in MainRaised : MetricsReject(i, raised)
    \/ \E req \in MainRequests \cap HistoryRequests, n \in {1, BurstSize} :
          HistoryRequest(req, n)
    \/ Sweep
    \/ \E t \in TimePoints : Tick(t, "none")

Spec == Init /\ [][Next]_vars

\* the rate limiter alone, driven through /api/metrics/history by two
\* identities, with an interval of RATE_LIMIT_WINDOW ms under observation
NextRate ==
    \/ \E req \in HistoryRequests, n \in {1, BurstSize} : HistoryRequest(req, n)
    \/ Sweep
    \/ \E t \in TimePoints, observe \in IPs \cup {"none"} : Tick(t, observe)

InitRate ==
    /\ Init
    /\ env = [MONITOR_API_TOKEN |-> <<" ", "t", "k">>, NODE_ENV |-> "production",
              ALLOWED_ORIGINS |-> <<>>]

SpecRate == InitRate /\ [][NextRate]_vars

\* the whole server behind cors(), with every route and every way a
\* recompute can fail
NextHttp ==
    \/ \E r \in HttpRequests : Http(r)
    \/ \E req \in MainRequests \cap HistoryRequests :
          HistoryRequest(req, BurstSize)
    \/ \E i \in 1 .. MaxInFlight : MetricsResolve(i)
    \/ \E i \in 1 .. MaxInFlight, raised \in Raised : MetricsReject(i, raised)
    \/ \E t \in {CACHE_TTL} : Tick(t, "none")

InitHttp ==
    /\ now = 0
    /\ env \in [MONITOR_API_TOKEN : RawTokens, NODE_ENV : NodeEnvs,
                 ALLOWED_ORIGINS : RawOrigins]
    /\ ALLOWED_ORIGINS = allowedOriginsList
    /\ rateLimitMap = << >>
    /\ metricsCache = [data |-> <<>>, timestamp |-> 0]
    /\ pending = <<>>
    /\ sweepDue = RATE_LIMIT_CLEANUP_INTERVAL
    /\ last = NoResponse
    /\ win = [i \in IPs |-> [start |-> 0, n |-> 0, allowed |-> TRUE]]
    /\ roll = NoRoll
    /\ nreq = 0
    /\ retry = NoRetry
    /\ shadow = NoShadow
    /\ host = NoHost
    /\ pager = NoPager
    /\ viewer = NoViewer
    /\ monitor = NoMonitor

SpecHttp == InitHttp /\ [][NextHttp]_vars

\* the rate limiter over more than one window, with the disclosed retry
\* delays and the never-swept table under observation
RetryTimePoints ==
    { 0, 1, RATE_LIMIT_WINDOW - 1, RATE_LIMIT_WINDOW, RATE_LIMIT_WINDOW + 1,
      RATE_LIMIT_WINDOW + 999 }

RetryRequests == { r \in HistoryRequests : r.hdr.xApiToken = Tk }

NextRetry ==
    \/ \E req \in RetryRequests, n \in {1, BurstSize, RATE_LIMIT_MAX_REQUESTS} :
          nreq < MaxRetryRequests /\ HistoryCalls(req, n)
    \/ Sweep
    \/ \E t \in RetryTimePoints : Tick(t, "none")

InitRetry ==
    /\ now = 0
    /\ env = [MONITOR_API_TOKEN |-> <<" ", "t", "k">>, NODE_ENV |-> "production",
              ALLOWED_ORIGINS |-> <<>>]
    /\ ALLOWED_ORIGINS = allowedOriginsList
    /\ rateLimitMap = << >>
    /\ metricsCache = [data |-> <<>>, timestamp |-> 0]
    /\ pending = <<>>
    /\ sweepDue = RATE_LIMIT_CLEANUP_INTERVAL
    /\ last = NoResponse
    /\ win = [i \in IPs |-> [start |-> 0, n |-> 0, allowed |-> TRUE]]
    /\ roll = NoRoll
    /\ nreq = 0
    /\ retry = [NoRetry EXCEPT !.on = TRUE]
    /\ shadow = [NoShadow EXCEPT !.on = TRUE]
    /\ host = NoHost
    /\ pager = NoPager
    /\ viewer = NoViewer
    /\ monitor = NoMonitor

SpecRetry == InitRetry /\ [][NextRetry]_vars

\* the backend after start-up, in production mode with a token
InitServer ==
    /\ now = 0
    /\ env = [MONITOR_API_TOKEN |-> <<" ", "t", "k">>, NODE_ENV |-> "production",
              ALLOWED_ORIGINS |-> <<>>]
    /\ ALLOWED_ORIGINS = allowedOriginsList
    /\ rateLimitMap = << >>
    /\ metricsCache = [data |-> <<>>, timestamp |-> 0]
    /\ pending = <<>>
    /\ sweepDue = RATE_LIMIT_CLEANUP_INTERVAL
    /\ last = NoResponse
    /\ win = [i \in IPs |-> [start |-> 0, n |-> 0, allowed |-> TRUE]]
    /\ roll = NoRoll
    /\ nreq = 0
    /\ retry = NoRetry
    /\ shadow = NoShadow

\* calculateMetrics() on what the host reports: the uptime label and the
\* memory field of the snapshot
calculateMetrics ==
    /\ host.on
    /\ host.snapshot = <<>>
    /\ host' = [host EXCEPT !.snapshot =
                  << [ uptime |-> formatUptime(host.uptime),
                       memory |-> memoryPercent(host.mem) ] >>]
    /\ UNCHANGED <<serverVars, pager, viewer, monitor>>

NextHost == calculateMetrics

InitHost ==
    /\ InitServer
    /\ host \in { [on |-> TRUE, uptime |-> u, mem |-> [total |-> 160, available |-> 80],
                    snapshot |-> <<>>] : u \in UptimeReadings }
               \cup
               { [on |-> TRUE, uptime |-> 59, mem |-> m, snapshot |-> <<>>] :
                    m \in MemReadings }
    /\ pager = NoPager
    /\ viewer = NoViewer
    /\ monitor = NoMonitor

SpecHost == InitHost /\ [][NextHost]_vars

\* the cache under overlapping requests: /api/metrics alone, called with the
\* token and without credentials, each recompute ending when it ends
CacheRequests ==
    { r \in MainRequests :
        r.hdr \in { Hdr("10.0.0.9", Tk, <<>>, <<>>), Hdr("10.0.0.9", <<>>, <<>>, <<>>) } }

NextCache ==
    \/ \E req \in CacheRequests : MetricsRequest(req)
    \/ \E i \in 1 .. MaxInFlight : MetricsResolve(i)
    \/ \E i \in 1 .. MaxInFlight, raised \in MainRaised : MetricsReject(i, raised)
    \/ \E t \in TimePoints : Tick(t, "none")

InitCache ==
    /\ Init
    /\ env = [MONITOR_API_TOKEN |-> <<" ", "t", "k">>, NODE_ENV |-> "production",
              ALLOWED_ORIGINS |-> <<>>]

SpecCache == InitCache /\ [][NextCache]_vars

----------------------------------------------------------------------------
(* The log page service *)

\* the largest number of lines one page holds, whatever limit is asked for
MAX_LIMIT == 300

\* a log source of n lines; a line is known by the place it was written at
LogLines(n) == [i \in 1 .. n |-> i]

\* the sources the pages are read from, the offsets and the limits asked for,
\* and the numbers of lines the owning process appends at a time
SourceLengths == {0, 120, 160, 420}
PageOffsets == {0, 50, 100, 400}
PageLimits == {50, 100, 300}
WriteSizes == {1, 40}

\* getPage(source, offset, limit, asc) with a page one line too long
getPage_InclusiveEnd(source, offset, limit) ==
    LET n == IF limit > MAX_LIMIT THEN MAX_LIMIT ELSE limit
        end == IF offset + n + 1 > Len(source) THEN Len(source) ELSE offset + n + 1
        lines == IF offset >= Len(source) THEN <<>> ELSE SubSeq(source, offset + 1, end)
    IN  [ lines |-> lines, offset |-> offset, limit |-> n,
          nextOffset |-> offset + Len(lines),
          hasMore |-> offset + Len(lines) < Len(source) ]

\* getPage(source, offset, limit, asc) advancing by the limit asked for
getPage_NextByLimit(source, offset, limit) ==
    LET n == IF limit > MAX_LIMIT THEN MAX_LIMIT ELSE limit
        end == IF offset + n > Len(source) THEN Len(source) ELSE offset + n
        lines == IF offset >= Len(source) THEN <<>> ELSE SubSeq(source, offset + 1, end)
    IN  [ lines |-> lines, offset |-> offset, limit |-> n,
          nextOffset |-> offset + n,
          hasMore |-> offset + n < Len(source) ]

\* getPage(source, offset, limit, asc): the limit is clamped, the lines are
\* those from offset forward, oldest first; nextOffset is offset plus the
\* number of lines returned and hasMore tells whether lines lie beyond it
getPage(source, offset, limit) ==
    LET n == IF limit > MAX_LIMIT THEN MAX_LIMIT ELSE limit
        end == IF offset + n > Len(source) THEN Len(source) ELSE offset + n
        lines == IF offset >= Len(source) THEN <<>> ELSE SubSeq(source, offset + 1, end)
    IN  [ lines |-> lines, offset |-> offset, limit |-> n,
          nextOffset |-> offset + Len(lines),
          hasMore |-> offset + Len(lines) < Len(source) ]

\* the calls a reader of the source makes: a page, the page that follows it
\* and the one page that spans both
PageCalls ==
    { [offset |-> pager.a, limit |-> pager.m],
      [offset |-> pager.a + pager.m, limit |-> pager.n],
      [offset |-> pager.a, limit |-> pager.m + pager.n] }

\* one call of getPage, kept with the number of writes and the size of the
\* source at the moment of the read
ReadPage(call) ==
    /\ pager.on
    /\ Len(pager.reads) < MaxReads
    /\ pager' = [pager EXCEPT !.reads =
                    Append(@, [ call |-> call, writes |-> pager.writes,
                                size |-> Len(pager.source),
                                page |-> getPage(pager.source, call.offset, call.limit) ])]
    /\ UNCHANGED <<serverVars, host, viewer, monitor>>

\* the owning process appends k lines to the source
WriteLog(k) ==
    /\ pager.on
    /\ pager.writes < MaxWrites
    /\ pager' = [pager EXCEPT
                    !.source = @ \o [i \in 1 .. k |-> Len(pager.source) + i],
                    !.writes = @ + 1]
    /\ UNCHANGED <<serverVars, host, viewer, monitor>>

NextPage ==
    \/ \E call \in PageCalls : ReadPage(call)
    \/ \E k \in WriteSizes : WriteLog(k)

InitPage ==
    /\ InitServer
    /\ host = NoHost
    /\ pager \in { [ on |-> TRUE, source |-> LogLines(len), a |-> a, m |-> m, n |-> n,
                     writes |-> 0, reads |-> <<>> ] :
                     len \in SourceLengths, a \in PageOffsets, m \in PageLimits,
                     n \in PageLimits }
    /\ viewer = NoViewer
    /\ monitor = NoMonitor

SpecPage == InitPage /\ [][NextPage]_vars

----------------------------------------------------------------------------
(* The log viewer *)

DEFAULT_LIMIT == 300

\* the sizes of the source the viewer is opened on, and what a request that
\* does not succeed raises
ViewerSourceLengths == {0, 200, 301, 650}
FetchErrors == { <<"HTTP 404: Not Found">>, <<"Failed to fetch">> }

\* payload.nextOffset ?? nextOffset + newLines.length
StoredOffset(payload, nextOffset, newLines) ==
    IF "nextOffset" \in DOMAIN payload THEN payload.nextOffset
    ELSE nextOffset + Len(newLines)

\* fetchPage(nextOffset, append) up to its await: the flag of the kind of
\* load is raised, the error is cleared and the request leaves
fetchPage(nextOffset, append, op) ==
    [viewer EXCEPT
        !.loading = IF append THEN @ ELSE TRUE,
        !.loadingMore = IF append THEN TRUE ELSE @,
        !.error = <<>>,
        !.flights = Append(@, [offset |-> nextOffset, append |-> append]),
        !.issued = @ + 1,
        !.serial = @ /\ viewer.flights = <<>>,
        !.ops = Append(@, op)]

\* the effect that runs when the component is mounted
ViewerMount ==
    /\ viewer.on
    /\ ~viewer.mounted
    /\ viewer.issued < MaxFetches
    /\ viewer' = [fetchPage(0, FALSE, "mount") EXCEPT !.mounted = TRUE]
    /\ UNCHANGED <<serverVars, host, pager, monitor>>

\* the Refresh button, disabled while loading
handleRefresh ==
    /\ viewer.on
    /\ viewer.mounted
    /\ ~viewer.loading
    /\ viewer.issued < MaxFetches
    /\ viewer' = fetchPage(0, FALSE, "refresh")
    /\ UNCHANGED <<serverVars, host, pager, monitor>>

\* the Load-more button, disabled while loading more or when nothing is left
handleLoadMore ==
    /\ viewer.on
    /\ viewer.mounted
    /\ ~viewer.loadingMore
    /\ viewer.hasMore
    /\ viewer.issued < MaxFetches
    /\ viewer' = fetchPage(viewer.offset, TRUE, "more")
    /\ UNCHANGED <<serverVars, host, pager, monitor>>

\* fetchPage after its await, the response being a page: the lines replace
\* or go before the lines held, offset and hasMore are taken from the page,
\* both flags are lowered
FetchSettle(i) ==
    /\ viewer.on
    /\ i \in DOMAIN viewer.flights
    /\ LET flight == viewer.flights[i]
           payload == getPage(viewer.source, flight.offset, DEFAULT_LIMIT)
           newLines == payload.lines
       IN  viewer' = [viewer EXCEPT
                        !.lines = IF flight.append THEN newLines \o @ ELSE newLines,
                        !.offset = StoredOffset(payload, flight.offset, newLines),
                        !.hasMore = payload.hasMore,
                        !.loading = FALSE,
                        !.loadingMore = FALSE,
                        !.flights = RemoveAt(@, i),
                        !.loads = @ + 1]
    /\ UNCHANGED <<serverVars, host, pager, monitor>>

\* fetchPage after its await, the request having failed or the status not
\* being ok: the message is kept, both flags are lowered
FetchFail(i, message) ==
    /\ viewer.on
    /\ i \in DOMAIN viewer.flights
    /\ viewer' = [viewer EXCEPT
                    !.error = message,
                    !.loading = FALSE,
                    !.loadingMore = FALSE,
                    !.flights = RemoveAt(@, i),
                    !.failed = TRUE]
    /\ UNCHANGED <<serverVars, host, pager, monitor>>

\* the owning process appends k lines to the source
ViewerLogWrite(k) ==
    /\ viewer.on
    /\ viewer.writes < MaxWrites
    /\ viewer' = [viewer EXCEPT
                    !.source = @ \o [i \in 1 .. k |-> Len(viewer.source) + i],
                    !.writes = @ + 1]
    /\ UNCHANGED <<serverVars, host, pager, monitor>>

NextLog ==
    \/ ViewerMount
    \/ handleRefresh
    \/ handleLoadMore
    \/ \E i \in 1 .. MaxFetches : FetchSettle(i)
    \/ \E i \in 1 .. MaxFetches, message \in FetchErrors : FetchFail(i, message)
    \/ \E k \in WriteSizes : ViewerLogWrite(k)

\* the component as constructed: no lines, offset 0, loading
InitLog ==
    /\ InitServer
    /\ host = NoHost
    /\ pager = NoPager
    /\ viewer \in { [ on |-> TRUE, source |-> LogLines(len), lines |-> <<>>,
                      offset |-> 0, hasMore |-> FALSE, loading |-> TRUE,
                      loadingMore |-> FALSE, error |-> <<>>, mounted |-> FALSE,
                      flights |-> <<>>, issued |-> 0, loads |-> 0, writes |-> 0,
                      serial |-> TRUE, failed |-> FALSE, ops |-> <<>> ] :
                      len \in ViewerSourceLengths }
    /\ monitor = NoMonitor

SpecLog == InitLog /\ [][NextLog]_vars

----------------------------------------------------------------------------
(* The dashboard *)

HISTORY_LENGTH == 20
POLL_INTERVAL_MS == 5000

\* what /api/metrics answers with (the cpu value; memory and disk follow it)
\* and the messages of the requests that do not succeed
Samples == {10, 90}
MonitorErrors ==
    { <<"Error al conectar: No autorizado. Verifique credenciales.">>,
      <<"Error al conectar: Failed to fetch">> }

\* the ResourceData made of a response
ResourceData(v) == [cpu |-> v, memory |-> v + 1, disk |-> v + 2]

\* the moments the dashboard is looked at: half an interval apart
MonitorStep == POLL_INTERVAL_MS \div 2

\* nothing of note happened in the step: the note every step starts from
\* (data and failure are what fetchMetrics returned or threw in the step)
NoEvent == [kind |-> "none", poll |-> FALSE, started |-> FALSE, stopped |-> FALSE,
            aborted |-> 0, due |-> <<>>, data |-> <<>>, failure |-> <<>>]

\* the history after loadInitialData: HISTORY_LENGTH entries, the last one real
InitialHistory(data) ==
    [ cpu |-> [i \in 1 .. HISTORY_LENGTH |-> IF i = HISTORY_LENGTH THEN data.cpu ELSE 0],
      memory |-> [i \in 1 .. HISTORY_LENGTH |-> IF i = HISTORY_LENGTH THEN data.memory ELSE 0],
      disk |-> [i \in 1 .. HISTORY_LENGTH |-> IF i = HISTORY_LENGTH THEN data.disk ELSE 0] ]

\* prev.slice(1)
Slice1(s) == IF s = <<>> THEN <<>> ELSE Tail(s)

\* the history after a refresh: [...prev.slice(1), new]
RefreshedHistory(prev, data) ==
    [ cpu |-> Append(Slice1(prev.cpu), data.cpu),
      memory |-> Append(Slice1(prev.memory), data.memory),
      disk |-> Append(Slice1(prev.disk), data.disk) ]

\* refreshMetrics(signal) up to its await: a request to /api/metrics leaves
refreshMetrics(flights) ==
    Append(flights, [hidden |-> monitor.hidden])

\* the browser shows or hides the tab and handleVisibilityChange asks for
\* isVisible to follow; the component renders later
VisibilityChange(hidden) ==
    /\ monitor.on
    /\ monitor.hidden # hidden
    /\ monitor.changes < MaxVisibilityChanges
    /\ monitor' = [monitor EXCEPT
                     !.hidden = hidden,
                     !.changes = @ + 1,
                     !.queued.isVisible = << ~hidden >>,
                     !.ev = [NoEvent EXCEPT !.kind = "visibility"]]
    /\ UNCHANGED <<serverVars, host, pager, viewer>>

\* loadInitialData after its await, the response being a snapshot
InitialSettle(v) ==
    /\ monitor.on
    /\ monitor.initial = "flying"
    /\ monitor' = [monitor EXCEPT
                     !.initial = "done",
                     !.resources = ResourceData(v),
                     !.history = InitialHistory(ResourceData(v)),
                     !.queued.loading = <<FALSE>>,
                     !.ev = [NoEvent EXCEPT !.kind = "initial",
                                            !.data = << ResourceData(v) >>]]
    /\ UNCHANGED <<serverVars, host, pager, viewer>>

\* loadInitialData after its await, fetchMetrics having thrown
InitialFail(message) ==
    /\ monitor.on
    /\ monitor.initial = "flying"
    /\ monitor' = [monitor EXCEPT
                     !.initial = "done",
                     !.error = message,
                     !.queued.loading = <<FALSE>>,
                     !.ev = [NoEvent EXCEPT !.kind = "initial", !.failure = message]]
    /\ UNCHANGED <<serverVars, host, pager, viewer>>

\* the component renders with the state asked for and its effects run: when
\* loading or isVisible changed, the periodic effect is cleaned up (abort,
\* clearInterval) and run again (return at once when loading or not visible,
\* else a new controller, a refresh at once and a new interval)
Commit ==
    /\ monitor.on
    /\ monitor.queued # [loading |-> <<>>, isVisible |-> <<>>]
    /\ LET loading == IF monitor.queued.loading # <<>> THEN monitor.queued.loading[1]
                      ELSE monitor.loading
           isVisible == IF monitor.queued.isVisible # <<>> THEN monitor.queued.isVisible[1]
                        ELSE monitor.isVisible
           changed == loading # monitor.loading \/ isVisible # monitor.isVisible
           starts == changed /\ ~loading /\ isVisible
           stops == changed /\ monitor.timer # <<>>
       IN  monitor' = [monitor EXCEPT
                         !.loading = loading,
                         !.isVisible = isVisible,
                         !.queued = [loading |-> <<>>, isVisible |-> <<>>],
                         !.flights = IF starts THEN refreshMetrics(<<>>)
                                     ELSE IF stops THEN <<>> ELSE @,
                         !.timer = IF starts THEN << monitor.clock + POLL_INTERVAL_MS >>
                                   ELSE IF stops THEN <<>> ELSE @,
                         !.ev = [NoEvent EXCEPT
                                   !.kind = "commit",
                                   !.poll = starts,
                                   !.started = starts,
                                   !.stopped = stops,
                                   !.aborted = IF stops THEN Len(monitor.flights) ELSE 0]]
    /\ UNCHANGED <<serverVars, host, pager, viewer>>

\* the interval fires: refreshMetrics with the signal of the effect that set it
IntervalFire ==
    /\ monitor.on
    /\ monitor.timer # <<>>
    /\ monitor.timer[1] = monitor.clock
    /\ monitor' = [monitor EXCEPT
                     !.flights = refreshMetrics(@),
                     !.timer = << monitor.clock + POLL_INTERVAL_MS >>,
                     !.ev = [NoEvent EXCEPT !.kind = "interval", !.poll = TRUE,
                                            !.due = monitor.timer]]
    /\ UNCHANGED <<serverVars, host, pager, viewer>>

\* refreshMetrics after its await, the response being a snapshot
PollSettle(i, v) ==
    /\ monitor.on
    /\ i \in DOMAIN monitor.flights
    /\ monitor' = [monitor EXCEPT
                     !.flights = RemoveAt(@, i),
                     !.resources = ResourceData(v),
                     !.error = <<>>,
                     !.history = RefreshedHistory(@, ResourceData(v)),
                     !.ev = [NoEvent EXCEPT !.kind = "poll",
                                            !.data = << ResourceData(v) >>]]
    /\ UNCHANGED <<serverVars, host, pager, viewer>>

\* PollFail, were a failed poll to stop the interval
PollFail_StopsPolling(i, message) ==
    /\ monitor.on
    /\ i \in DOMAIN monitor.flights
    /\ monitor' = [monitor EXCEPT
                     !.flights = RemoveAt(@, i),
                     !.error = message,
                     !.timer = <<>>,
                     !.ev = [NoEvent EXCEPT !.kind = "poll", !.failure = message]]
    /\ UNCHANGED <<serverVars, host, pager, viewer>>

\* refreshMetrics after its await, fetchMetrics having thrown
PollFail(i, message) ==
    /\ monitor.on
    /\ i \in DOMAIN monitor.flights
    /\ monitor' = [monitor EXCEPT
                     !.flights = RemoveAt(@, i),
                     !.error = message,
                     !.ev = [NoEvent EXCEPT !.kind = "poll", !.failure = message]]
    /\ UNCHANGED <<serverVars, host, pager, viewer>>

\* time passes once the component has rendered, no further than the moment
\* the interval is due
Advance ==
    /\ monitor.on
    /\ monitor.queued = [loading |-> <<>>, isVisible |-> <<>>]
    /\ monitor.clock + MonitorStep <= MaxMonitorTime
    /\ monitor.timer # <<>> => monitor.clock + MonitorStep <= monitor.timer[1]
    /\ monitor' = [monitor EXCEPT
                     !.clock = @ + MonitorStep,
                     !.ev = [NoEvent EXCEPT !.kind = "time"]]
    /\ UNCHANGED <<serverVars, host, pager, viewer>>

NextMonitor ==
    \/ \E hidden \in BOOLEAN : VisibilityChange(hidden)
    \/ \E v \in Samples : InitialSettle(v)
    \/ \E message \in MonitorErrors : InitialFail(message)
    \/ Commit
    \/ IntervalFire
    \/ \E i \in DOMAIN monitor.flights, v \in Samples : PollSettle(i, v)
    \/ \E i \in DOMAIN monitor.flights, message \in MonitorErrors : PollFail(i, message)
    \/ Advance

\* the component once mounted: the listener is set, the initial load is under
\* way, the periodic effect has returned at once because loading is true
InitMonitor ==
    /\ InitServer
    /\ host = NoHost
    /\ pager = NoPager
    /\ viewer = NoViewer
    /\ monitor \in { [ on |-> TRUE, hidden |-> h, isVisible |-> ~h, loading |-> TRUE,
                       queued |-> [loading |-> <<>>, isVisible |-> <<>>],
                       initial |-> "flying", flights |-> <<>>, timer |-> <<>>,
                       resources |-> [cpu |-> 0, memory |-> 0, disk |-> 0],
                       history |-> [cpu |-> <<>>, memory |-> <<>>, disk |-> <<>>],
                       error |-> <<>>, clock |-> 0, changes |-> 0, ev |-> NoEvent ] : h \in BOOLEAN }

SpecMonitor == InitMonitor /\ [][NextMonitor]_vars
----------------------------------------------------------------------------
(* Steps, as seen from a pair of states *)

\* a request to /api/metrics was handled in this step
MetricsStep == nreq' = nreq + 1 /\ last'.route = "metrics"

\* ... and it passed the rate check and the token check
AdmittedMetricsStep == MetricsStep /\ last'.kind \in {"hit", "await"}

\* a suspended handler was resumed in this step
ResumeStep == Len(pending') < Len(pending)

CachePresent == metricsCache.data # <<>>

NoTokenProduction == ~HAS_API_TOKEN /\ env.NODE_ENV # "development"

\* a request to a rate-limited route was handled in this step
RequestStep == nreq' = nreq + 1

\* a request was received in this step and answered or suspended
ReceivedStep == last' # last /\ ~ResumeStep

\* the number a client reads from a header made of decimal digits
RECURSIVE ParseDecimal(_)
ParseDecimal(s) ==
    IF s = <<>> THEN 0
    ELSE 10 * ParseDecimal(SubSeq(s, 1, Len(s) - 1))
         + (CHOOSE d \in 0 .. 9 : DigitChars[d + 1] = s[Len(s)])

----------------------------------------------------------------------------
(* C1 *)

\* C1 (as stated): any two successful metrics responses whose calls started
\* less than CACHE_TTL apart carry the same timestamp, also when the calls
\* overlap.
C1_SameSnapshotWithinTTL ==
    [][ ( /\ last.route = "metrics" /\ last.status = 200
          /\ last'.route = "metrics" /\ last'.status = 200
          /\ last'.start - last.start < CACHE_TTL
          /\ last.start - last'.start < CACHE_TTL )
        => last'.ts = last.ts ]_vars

\* C1 (amended): an admitted, authorized call that starts while a snapshot is
\* cached and its stamp is less than CACHE_TTL old is answered at once with
\* that snapshot and leaves the cache slot as it is; so calls served from the
\* cache one after the other, with no store in between, carry the same
\* timestamp.
C1_HitsServeCachedSnapshot ==
    [][ /\ ( AdmittedMetricsStep /\ CachePresent
             /\ now - metricsCache.timestamp < CACHE_TTL )
           => ( /\ last'.kind = "hit"
                /\ last'.ts = metricsCache.data[1].timestamp
                /\ metricsCache' = metricsCache
                /\ pending' = pending )
        /\ ( MetricsStep /\ last.kind = "hit" /\ last'.kind = "hit" )
           => last'.ts = last.ts ]_vars

\* a call answered from the cache some time after the snapshot was stored
C1_Witness ==
    /\ last.kind = "hit"
    /\ last.start > metricsCache.timestamp
    /\ last.ts = metricsCache.data[1].timestamp

----------------------------------------------------------------------------
(* C2 *)

\* C2: a call that starts CACHE_TTL or more after the stamp of the cached
\* snapshot is not answered from the cache, and the snapshot it returns has a
\* timestamp strictly greater than that of the snapshot it found cached.
C2_RecomputeStrictlyNewer ==
    [][ /\ ( AdmittedMetricsStep /\ CachePresent
             /\ now - metricsCache.timestamp >= CACHE_TTL )
           => last'.kind = "await"
        /\ \A i \in 1 .. Len(pending) :
             ( /\ ResumeStep /\ pending' = RemoveAt(pending, i)
               /\ last'.kind = "computed"
               /\ pending[i].seenTs >= 0
               /\ pending[i].now - pending[i].seenStamp >= CACHE_TTL )
             => last'.ts > pending[i].seenTs ]_vars

----------------------------------------------------------------------------
(* C3 *)

\* C3 (as stated): in a 60-second interval that starts at any instant, the
\* 100th call of an identity is admitted and its 101st is rejected.
C3_RollingQuota ==
    roll.on => /\ (roll.n = RATE_LIMIT_MAX_REQUESTS => roll.allowed)
               /\ (roll.n = RATE_LIMIT_MAX_REQUESTS + 1 => ~roll.allowed)

\* C3 (amended): in a 60-second interval whose first call is the one that
\* opens a window of the limiter (the call that creates or resets the
\* identity's record), the 100th call is admitted and the 101st is rejected.
C3_WindowQuota ==
    ( /\ roll.on
      /\ roll.n >= 1
      /\ roll.n = win[roll.ip].n
      /\ roll.start <= win[roll.ip].start )
    => /\ (roll.n = RATE_LIMIT_MAX_REQUESTS => roll.allowed)
       /\ (roll.n = RATE_LIMIT_MAX_REQUESTS + 1 => ~roll.allowed)

\* the 101st call of a window has been rejected
C3_Witness ==
    /\ roll.on
    /\ roll.n = win[roll.ip].n
    /\ roll.start <= win[roll.ip].start
    /\ roll.n = RATE_LIMIT_MAX_REQUESTS + 1
    /\ ~roll.allowed
    /\ last.status = 429

----------------------------------------------------------------------------
(* C4 *)

\* C4 (as stated): with no token configured and outside development mode,
\* every request to /api/metrics is answered 503.
C4_NoTokenAlways503 ==
    [][ (MetricsStep /\ NoTokenProduction) => last'.status = 503 ]_vars

\* C4 (amended): with no token configured and outside development mode, a
\* request to /api/metrics that passes the rate check is answered 503 and
\* touches neither the cache nor the host unless it carries a non-empty
\* X-Auth-User header, in which case it is let through to the handler; a
\* request over quota is answered 429.
C4_NoTokenFailsClosedButForAuthUser ==
    [][ ( MetricsStep /\ NoTokenProduction /\ last'.status # 429 )
        => \A req \in MainRequests :
          MetricsRequest(req)
          => IF req.hdr.xAuthUser = <<>>
             THEN /\ last'.status = 503
                  /\ metricsCache' = metricsCache
                  /\ pending' = pending
             ELSE last'.kind \in {"hit", "await"} ]_vars

\* a request answered 503 by /api/metrics
C4_Witness ==
    /\ NoTokenProduction
    /\ last.route = "metrics"
    /\ last.status = 503

----------------------------------------------------------------------------
(* C5 *)

\* C5 (as stated): with a token configured, a request that passed the rate
\* check is authorized exactly when X-Api-Token equals the token, or
\* Authorization is 'Bearer ' followed by the token, or X-Auth-User is not
\* empty, or the mode is development and the socket address is loopback;
\* every other request gets 401 and reaches neither cache nor host.
C5_AuthorizedIffExactCredential ==
    [][ ( MetricsStep /\ HAS_API_TOKEN /\ last'.status # 429 )
        => \A req \in MainRequests :
          LET h       == req.hdr
              claimed ==
                  \/ h.xApiToken = API_TOKEN
                  \/ h.authorization = BearerPrefix \o API_TOKEN
                  \/ h.xAuthUser # <<>>
                  \/ /\ env.NODE_ENV = "development"
                     /\ h.remoteAddress \in {"127.0.0.1", "::1"}
          IN  MetricsRequest(req)
              => IF claimed
                 THEN last'.kind \in {"hit", "await"}
                 ELSE /\ last'.status = 401
                      /\ metricsCache' = metricsCache
                      /\ pending' = pending ]_vars

\* C5 (amended): as stated, except that the bearer credential is accepted
\* when Authorization starts with 'Bearer ' and the rest of the header, with
\* the whitespace around it removed, equals the token.
C5_AuthorizedIffTrimmedCredential ==
    [][ ( MetricsStep /\ HAS_API_TOKEN /\ last'.status # 429 )
        => \A req \in MainRequests :
          LET h       == req.hdr
              rest    == IF Len(h.authorization) >= 7
                         THEN SubSeq(h.authorization, 8, Len(h.authorization))
                         ELSE <<>>
              claimed ==
                  \/ h.xApiToken = API_TOKEN
                  \/ /\ Len(h.authorization) >= 7
                     /\ SubSeq(h.authorization, 1, 7) = BearerPrefix
                     /\ \E l, r \in 0 .. Len(rest) :
                          /\ l + r <= Len(rest)
                          /\ \A k \in 1 .. l : rest[k] = " "
                          /\ \A k \in (Len(rest) - r + 1) .. Len(rest) : rest[k] = " "
                          /\ SubSeq(rest, l + 1, Len(rest) - r) = API_TOKEN
                  \/ h.xAuthUser # <<>>
                  \/ /\ env.NODE_ENV = "development"
                     /\ h.remoteAddress \in {"127.0.0.1", "::1"}
          IN  MetricsRequest(req)
              => IF claimed
                 THEN last'.kind \in {"hit", "await"}
                 ELSE /\ last'.status = 401
                      /\ metricsCache' = metricsCache
                      /\ pending' = pending ]_vars

\* a request answered 401 by /api/metrics in production mode
C5_Witness ==
    /\ HAS_API_TOKEN
    /\ env.NODE_ENV = "production"
    /\ last.route = "metrics"
    /\ last.status = 401

----------------------------------------------------------------------------
(* C6 *)

\* C6: every request to /api/metrics increments its identity's count,
\* whatever its credentials; a request whose count exceeds the quota is
\* answered 429 whatever its credentials; a request answered 429, 401 or 503
\* leaves the cache slot and the set of running recomputes as they were.
C6_RateThenTokenThenCache ==
    [][ MetricsStep
          => LET ip  == last'.ip
                 old == IF ip \in DOMAIN rateLimitMap
                           /\ now < rateLimitMap[ip].resetAt
                        THEN rateLimitMap[ip].count ELSE 0
             IN  /\ ip \in DOMAIN rateLimitMap'
                 /\ rateLimitMap'[ip].count = old + 1
                 /\ (old + 1 > RATE_LIMIT_MAX_REQUESTS => last'.status = 429)
                 /\ (last'.status \in {429, 401, 503}
                       => /\ metricsCache' = metricsCache
                          /\ pending' = pending) ]_vars

\* a request over quota answered 429 while a fresh snapshot sits in the cache
C6_Witness ==
    /\ last.route = "metrics"
    /\ last.status = 429
    /\ rateLimitMap[last.ip].count > RATE_LIMIT_MAX_REQUESTS
    /\ CachePresent
    /\ now - metricsCache.timestamp < CACHE_TTL

----------------------------------------------------------------------------
(* C7 *)

\* C7: a 200 response of /api/metrics carries either the snapshot its own
\* request has just computed, or the cached snapshot at a moment when both
\* the cache stamp and the snapshot's timestamp are less than CACHE_TTL old.
C7_NoStaleSnapshotServed ==
    [][ /\ ( MetricsStep /\ last'.status = 200 )
           => /\ CachePresent
              /\ last'.ts = metricsCache.data[1].timestamp
              /\ now - metricsCache.timestamp < CACHE_TTL
              /\ now - metricsCache.data[1].timestamp < CACHE_TTL
              /\ now - metricsCache.data[1].timestamp >= 0
        /\ ( ResumeStep /\ last'.status = 200 )
           => /\ last'.kind = "computed"
              /\ last'.ts = now ]_vars

\* a snapshot served from the cache in the last millisecond of its life
C7_Witness ==
    /\ last.kind = "hit"
    /\ last.start - last.ts = CACHE_TTL - 1
    /\ last.start - metricsCache.timestamp = CACHE_TTL - 1

----------------------------------------------------------------------------
(* C8 *)

\* C8: when a recompute fails, its request is answered 500 without a
\* snapshot and the cache slot keeps the data and the stamp it had.
C8_FailedRecomputeLeavesCache ==
    [][ ( ResumeStep /\ last'.kind # "computed" )
        => /\ last'.status = 500
           /\ last'.ts = -1
           /\ metricsCache' = metricsCache ]_vars

\* a recompute failed while a snapshot was cached
C8_Witness ==
    /\ last.kind = "failed"
    /\ last.status = 500
    /\ CachePresent

----------------------------------------------------------------------------
(* C9 *)

\* C9: the count of a record is the number of requests its identity has made
\* since its current window began, and the identity's latest request was
\* admitted exactly if that number is at most the quota.
C9_AdmittedIffWithinQuota ==
    \A ip \in IPs :
        /\ ip \in DOMAIN rateLimitMap
             => /\ win[ip].n >= 1
                /\ rateLimitMap[ip].count = win[ip].n
        /\ win[ip].n >= 1
             => (win[ip].allowed <=> win[ip].n <= RATE_LIMIT_MAX_REQUESTS)

\* an identity over quota in a window that began after a sweep
C9_Witness ==
    \E ip \in IPs :
        /\ ip \in DOMAIN rateLimitMap
        /\ rateLimitMap[ip].count > RATE_LIMIT_MAX_REQUESTS
        /\ ~win[ip].allowed
        /\ sweepDue > RATE_LIMIT_CLEANUP_INTERVAL

----------------------------------------------------------------------------
(* C10 *)

\* C10: a request that finds its identity's record with now >= resetAt sets
\* resetAt to now + RATE_LIMIT_WINDOW, leaves count at 1 and is admitted; a
\* request that finds now < resetAt leaves resetAt as it is.
C10_ResetAtWindowEnd ==
    [][ ( nreq' = nreq + 1 /\ last'.ip \in DOMAIN rateLimitMap )
        => LET old == rateLimitMap[last'.ip]
               new == rateLimitMap'[last'.ip]
           IN  IF now >= old.resetAt
               THEN /\ new.resetAt = now + RATE_LIMIT_WINDOW
                    /\ new.count = last'.calls
                    /\ (last'.calls = 1 => last'.status # 429)
               ELSE new.resetAt = old.resetAt ]_vars

\* a record reset by a request that arrived exactly at resetAt
C10_Witness ==
    /\ nreq >= 2
    /\ sweepDue = RATE_LIMIT_CLEANUP_INTERVAL
    /\ DOMAIN rateLimitMap = {last.ip}
    /\ last.start = RATE_LIMIT_WINDOW
    /\ rateLimitMap[last.ip] = [count |-> 1, resetAt |-> 2 * RATE_LIMIT_WINDOW]

----------------------------------------------------------------------------
(* C11 *)

\* C11: a 429 response carries in its body the number r of whole seconds,
\* rounded up, that remain until the identity's window ends
\* ((r - 1) * 1000 < resetAt - now <= r * 1000), r lies between 1 and 60,
\* and the Retry-After header reads r.
C11_RetryAfterIsSecondsLeft ==
    [][ ( RequestStep /\ last'.status = 429 )
        => LET left == rateLimitMap'[last'.ip].resetAt - now
               r    == last'.body.retryAfter
           IN  /\ (r - 1) * 1000 < left
               /\ left <= r * 1000
               /\ r >= 1
               /\ r <= RATE_LIMIT_WINDOW \div 1000
               /\ last'.retryHdr # <<>>
               /\ ParseDecimal(last'.retryHdr) = r ]_vars

\* a request rejected in the last millisecond of its window: one second
C11_Witness ==
    /\ last.status = 429
    /\ rateLimitMap[last.ip].resetAt - last.start = 1
    /\ last.body.retryAfter = 1
    /\ last.retryHdr = <<"1">>

----------------------------------------------------------------------------
(* C12 *)

\* C12 (as stated): after a request of an identity is rejected at t with
\* retryAfter = r, the identity's first request at or after t + r * 1000 is
\* admitted, whatever it sent in between.
C12_RetryAfterDelayPasses ==
    [][ RequestStep
        => \A d \in retry.due[last'.ip] : now >= d => retry'.firstAllowed ]_vars

\* C12 (amended): after a request of an identity is rejected at t with
\* retryAfter = r, the identity's first request at or after t + r * 1000 is
\* admitted, however many requests it had rejected in between, provided none
\* of its requests in between was admitted.
C12_RetryPassesUnlessReadmitted ==
    [][ RequestStep
        => \A d \in retry.cleanDue[last'.ip] : now >= d => retry'.firstAllowed ]_vars

\* a request admitted after the delays disclosed by two rejections at
\* different instants
C12_Witness ==
    /\ retry.on
    /\ retry.firstAllowed
    /\ Cardinality(retry.honoured) >= 2
    /\ last.status = 200

----------------------------------------------------------------------------
(* C13 *)

\* C13: a step that is not a request removes a record only if its window
\* has elapsed (now >= resetAt) and leaves every other record as it is; at
\* every moment a sweep would leave the outcome of the next call of every
\* identity as it is; and what checkRateLimit returns for each call is what
\* it returns on the table that is never swept.
C13_SweepIsInvisible ==
    [][ /\ ~RequestStep
           => \A ip \in DOMAIN rateLimitMap :
                 \/ /\ ip \in DOMAIN rateLimitMap'
                    /\ rateLimitMap'[ip] = rateLimitMap[ip]
                 \/ /\ ip \notin DOMAIN rateLimitMap'
                    /\ now >= rateLimitMap[ip].resetAt
        /\ \A ip \in IPs :
              LET kept  == checkRateLimit(rateLimitMap, ip, now)
                  swept == checkRateLimit(SweepMap(rateLimitMap, now), ip, now)
              IN  /\ kept.allowed = swept.allowed
                  /\ kept.retryAfter = swept.retryAfter
                  /\ kept.map[ip] = swept.map[ip]
        /\ shadow'.real = shadow'.ref ]_vars

\* a burst handled after the sweep had removed its identity's record, while
\* the record of the other identity, swept as well, is still missing
C13_Witness ==
    /\ shadow.on
    /\ shadow.swept
    /\ last.calls > 1
    /\ shadow.real = shadow.ref
    /\ rateLimitMap[last.ip] = shadow.map[last.ip]
    /\ \E ip \in DOMAIN shadow.map : ip \notin DOMAIN rateLimitMap

----------------------------------------------------------------------------
(* C14 *)

----------------------------------------------------------------------------
(* C15 *)

----------------------------------------------------------------------------
(* C16 *)

\* C16: every response of /api/metrics, 200, 401, 403, 429, 500 or 503,
\* carries Cache-Control: no-store.
C16_MetricsAlwaysNoStore ==
    ( last.route = "metrics" /\ last.status # 0 )
    => last.cacheControl = "no-store"

----------------------------------------------------------------------------
(* C17 *)

\* C17: every 401, 503, 429, 500 and 404 response has a body with a
\* non-empty error tag and a non-empty message, in every mode.
C17_FailuresCarryErrorAndMessage ==
    last.status \in {401, 503, 429, 500, 404}
    => /\ "error" \in DOMAIN last.body
       /\ last.body.error # ""
       /\ "message" \in DOMAIN last.body
       /\ last.body.message # ""

----------------------------------------------------------------------------
(* C18 *)

\* C18: when a recompute fails in development mode the 500 response carries
\* the message of the error raised ('Error desconocido' when what was raised
\* is not an Error); in every other mode the body of the 500 response is
\* the fixed error tag and the time, whatever was raised.
C18_ErrorTextOnlyInDevelopment ==
    [][ ( ResumeStep /\ last'.status = 500 )
        => \A i \in 1 .. Len(pending), raised \in Raised :
             MetricsReject(i, raised)
             => IF env.NODE_ENV = "development"
                THEN last'.body.message =
                        (IF raised.isError THEN raised.message
                         ELSE "Error desconocido")
                ELSE last'.body =
                        [ error     |-> "Error obteniendo metricas del sistema",
                          timestamp |-> ToISOString(now) ] ]_vars

\* a 500 response in production mode
C18_Witness ==
    /\ env.NODE_ENV = "production"
    /\ last.route = "metrics"
    /\ last.status = 500
    /\ "message" \notin DOMAIN last.body

----------------------------------------------------------------------------
(* C19 *)

----------------------------------------------------------------------------
(* C20 *)

\* C20: a request to /api/logs/{sourceId} that passes the cross-origin
\* check increments its identity's count, is answered 429 when the count
\* exceeds the quota and otherwise 401 or 503 when the token check refuses
\* it.
C20_LogsUnderAdmission ==
    [][ ( ReceivedStep /\ last'.route = "logs" /\ last'.status # 403 )
        => LET ip  == last'.ip
               old == IF ip \in DOMAIN rateLimitMap
                         /\ now < rateLimitMap[ip].resetAt
                      THEN rateLimitMap[ip].count ELSE 0
           IN  /\ ip \in DOMAIN rateLimitMap'
               /\ rateLimitMap'[ip].count = old + 1
               /\ old + 1 > RATE_LIMIT_MAX_REQUESTS => last'.status = 429
               /\ \A r \in HttpRequests :
                     ( /\ Http(r)
                       /\ old + 1 <= RATE_LIMIT_MAX_REQUESTS
                       /\ requireApiToken(r) # 0 )
                     => last'.status = requireApiToken(r) ]_vars

----------------------------------------------------------------------------
(* C27 *)

\* C27: every admitted, authorized request that finds the cache empty or
\* expired starts one computation of its own, whether or not others are
\* running, and no computation starts otherwise; when its computation ends
\* it sends the snapshot computed then, the others keep running, and the
\* cache slot holds the snapshot of the request that stored last.
C27_EveryMissComputesAndLastStoreWins ==
    [][ /\ ( /\ AdmittedMetricsStep
             /\ ~(CachePresent /\ now - metricsCache.timestamp < CACHE_TTL) )
           => /\ last'.kind = "await"
              /\ Len(pending') = Len(pending) + 1
              /\ SubSeq(pending', 1, Len(pending)) = pending
              /\ metricsCache' = metricsCache
        /\ Len(pending') > Len(pending)
           => /\ AdmittedMetricsStep
              /\ Len(pending') = Len(pending) + 1
        /\ ( ResumeStep /\ last'.status = 200 )
           => /\ last'.body = [timestamp |-> now]
              /\ metricsCache'.data = <<last'.body>>
              /\ Len(pending') = Len(pending) - 1 ]_vars

\* the request that started later has stored and sent its snapshot while
\* the one that started first is still computing
C27_Witness ==
    /\ last.kind = "computed"
    /\ Len(pending) = 1
    /\ pending[1].now < last.start
    /\ pending[1].seenTs = -1
    /\ metricsCache.data = <<last.body>>

----------------------------------------------------------------------------
(* C28 *)

\* C28 (as stated): between the freshness test of a request and the store
\* of its snapshot no other request tests or stores the cache slot.
C28_TestAndStoreUninterrupted ==
    [][ /\ AdmittedMetricsStep => pending = <<>>
        /\ ResumeStep => Len(pending) = 1 ]_vars

\* C28 (amended): the update of a rate-limit record is one uninterrupted
\* step, also while handlers are suspended: each request leaves its
\* identity's count one above what it found.  Of the cache slot, the
\* freshness test and the store are each one uninterrupted step, but other
\* requests may test and store between the two: a test changes nothing, and
\* a store puts its own snapshot and the start time of its request in the
\* slot, whatever has been stored since its test.
C28_StepsAtomicStoreOverwrites ==
    [][ /\ MetricsStep
           => LET ip  == last'.ip
                  old == IF ip \in DOMAIN rateLimitMap
                            /\ now < rateLimitMap[ip].resetAt
                         THEN rateLimitMap[ip].count ELSE 0
              IN  /\ rateLimitMap'[ip].count = old + 1
                  /\ metricsCache' = metricsCache
        /\ ResumeStep => rateLimitMap' = rateLimitMap
        /\ ( ResumeStep /\ last'.kind = "computed" )
           => metricsCache' = [data |-> <<[timestamp |-> now]>>,
                               timestamp |-> last'.start]
        /\ metricsCache' # metricsCache
           => ( ResumeStep /\ last'.kind = "computed" ) ]_vars

\* a handler is still computing although, since its freshness test, another
\* request has tested the slot and stored a snapshot
C28_Witness ==
    /\ Len(pending) >= 1
    /\ CachePresent
    /\ metricsCache.timestamp > pending[1].now
    /\ pending[1].seenTs = -1
    /\ rateLimitMap[pending[1].ip].count >= 2

----------------------------------------------------------------------------
(* C29 *)

\* C29: an admitted, authorized request that finds a snapshot cached with a
\* stamp less than CACHE_TTL old is answered 200 with that snapshot as it
\* is, starts no computation and leaves the data and the stamp of the slot
\* as they are; at an age of exactly CACHE_TTL it is not answered from the
\* cache.
C29_HitHasNoEffect ==
    [][ ( AdmittedMetricsStep /\ CachePresent )
        => LET age == now - metricsCache.timestamp
           IN  /\ age < CACHE_TTL
                    => /\ last'.kind = "hit"
                       /\ last'.status = 200
                       /\ last'.body = metricsCache.data[1]
                       /\ pending' = pending
                       /\ metricsCache'.data = metricsCache.data
                       /\ metricsCache'.timestamp = metricsCache.timestamp
               /\ age = CACHE_TTL
                    => /\ last'.kind = "await"
                       /\ last'.status = 0 ]_vars

\* a request answered from the cache while a computation is running
C29_Witness ==
    /\ last.kind = "hit"
    /\ last.body = metricsCache.data[1]
    /\ last.start > last.body.timestamp
    /\ Len(pending) >= 1

----------------------------------------------------------------------------
(* C30 *)

\* C30: after every recompute the stamp of the cache entry is the time at
\* which the snapshot was stored, which is the timestamp of the snapshot.
C30_StampIsStoreTime ==
    [][ ( ResumeStep /\ last'.kind = "computed" )
        => /\ metricsCache'.timestamp = now
           /\ metricsCache'.timestamp = metricsCache'.data[1].timestamp ]_vars

----------------------------------------------------------------------------
(* C25 *)

\* the parts of a text between its blanks
RECURSIVE Fields(_)
Fields(s) ==
    IF \A k \in 1 .. Len(s) : s[k] # " "
    THEN <<s>>
    ELSE LET k == CHOOSE k \in 1 .. Len(s) :
                     s[k] = " " /\ \A j \in 1 .. (k - 1) : s[j] # " "
         IN  <<SubSeq(s, 1, k - 1)>> \o Fields(SubSeq(s, k + 1, Len(s)))

\* C25: the uptime label of s seconds is made of the fields 'Dd Hh Mm' when
\* s is a day or more, 'Hh Mm' when it is an hour or more and less than a
\* day, 'Mm' otherwise, each field a decimal number and its unit, where the
\* numbers are the whole days, the whole hours left (less than 24) and the
\* whole minutes left (less than 60) of s: what they stand for lies at most 59
\* seconds below s.  90061 gives '1d 1h 1m', 3661 gives '1h 1m', 59 gives '0m'.
C25_UptimeLabel ==
    ( host.on /\ host.snapshot # <<>> )
    => LET s      == host.uptime
           label  == host.snapshot[1].uptime
           f      == Fields(label)
           Unit(x)   == x[Len(x)]
           Number(x) == ParseDecimal(SubSeq(x, 1, Len(x) - 1))
           units  == [k \in 1 .. Len(f) |-> Unit(f[k])]
           n      == [k \in 1 .. Len(f) |-> Number(f[k])]
           d      == IF Len(f) = 3 THEN n[1] ELSE 0
           h      == IF Len(f) >= 2 THEN n[Len(f) - 1] ELSE 0
           m      == n[Len(f)]
           left   == s - (d * 86400 + h * 3600 + m * 60)
       IN  /\ \A k \in 1 .. Len(f) :
                 /\ Len(f[k]) >= 2
                 /\ \A j \in 1 .. (Len(f[k]) - 1) :
                       \E c \in 1 .. 10 : DigitChars[c] = f[k][j]
                 /\ Digits(n[k]) = SubSeq(f[k], 1, Len(f[k]) - 1)
           /\ units = ( IF s >= 86400 THEN <<"d", "h", "m">>
                        ELSE IF s >= 3600 THEN <<"h", "m">>
                        ELSE <<"m">> )
           /\ 0 <= left /\ left < 60
           /\ h < 24 /\ m < 60
           /\ (s = 90061 => label = <<"1", "d", " ", "1", "h", " ", "1", "m">>)
           /\ (s = 3661 => label = <<"1", "h", " ", "1", "m">>)
           /\ (s = 59 => label = <<"0", "m">>)

\* the label of an uptime of a day, an hour, a minute and a second
C25_Witness ==
    /\ host.on
    /\ host.snapshot # <<>>
    /\ host.uptime = 90061
    /\ host.snapshot[1].uptime = <<"1", "d", " ", "1", "h", " ", "1", "m">>

----------------------------------------------------------------------------
(* C26 *)

\* C26: with 0 <= mem.available <= mem.total and mem.total > 0, the memory
\* field of the snapshot is the percentage 100 * (total - available) / total
\* rounded to the nearest integer, the greater one when it lies half-way, and
\* an integer from 0 to 100; for total = 16 000 000 000 and available =
\* 8 000 000 000 it is 50.
C26_MemoryIsRoundedPercentage ==
    ( host.on /\ host.snapshot # <<>> )
    => LET total   == host.mem.total
           used    == host.mem.total - host.mem.available
           rounded == (200 * used + total) \div (2 * total)
           memory  == host.snapshot[1].memory
       IN  /\ memory = rounded
           /\ memory \in 0 .. 100
           /\ (total = 160 /\ used = 80 => memory = 50)


----------------------------------------------------------------------------
(* C21 *)

\* C21: every page read forward holds the lines of the source from its
\* offset on, its nextOffset is the offset plus the number of lines returned
\* and its hasMore is true exactly when the source had lines beyond
\* nextOffset; two reads with the same arguments and no write in between
\* return the same lines and the same nextOffset, and offset 100 with limit
\* 50 on at least 150 lines gives nextOffset 150.
C21_PageAdvancesByLinesReturned ==
    pager.on =>
        /\ \A i \in DOMAIN pager.reads :
             LET r == pager.reads[i] IN
                /\ r.page.nextOffset = r.call.offset + Len(r.page.lines)
                /\ r.page.hasMore <=> (r.page.nextOffset < r.size)
                /\ \A k \in DOMAIN r.page.lines :
                      r.page.lines[k] = pager.source[r.call.offset + k]
                /\ (r.call = [offset |-> 100, limit |-> 50] /\ r.size >= 150)
                      => r.page.nextOffset = 150
        /\ \A i, j \in DOMAIN pager.reads :
             (pager.reads[i].call = pager.reads[j].call
                /\ pager.reads[i].writes = pager.reads[j].writes)
             => /\ pager.reads[i].page.lines = pager.reads[j].page.lines
                /\ pager.reads[i].page.nextOffset = pager.reads[j].page.nextOffset

\* the page at offset 100 with limit 50 was read twice in a row from a source
\* of at least 150 lines, and a short page was read as well
C21_Witness ==
    /\ pager.on
    /\ \E i, j \in DOMAIN pager.reads :
          /\ i < j
          /\ pager.reads[i].call = [offset |-> 100, limit |-> 50]
          /\ pager.reads[j].call = pager.reads[i].call
          /\ pager.reads[i].writes = pager.reads[j].writes
          /\ pager.reads[i].size >= 150
          /\ pager.reads[j].page.nextOffset = 150
    /\ \E i \in DOMAIN pager.reads :
          /\ Len(pager.reads[i].page.lines) < pager.reads[i].page.limit
          /\ ~pager.reads[i].page.hasMore

(* C22 *)

\* C22: with no write between the calls, the lines of page [a, m] followed
\* by the lines of page [a + m, n] are the lines of the one page [a, m + n]
\* whenever m + n is within the clamp; page [50, 50] before page [100, 50]
\* is page [50, 100].
C22_PagesCompose ==
    pager.on =>
        \A i, j, k \in DOMAIN pager.reads :
            LET first == pager.reads[i]
                second == pager.reads[j]
                whole == pager.reads[k] IN
            ( /\ first.call = [offset |-> pager.a, limit |-> pager.m]
              /\ second.call = [offset |-> pager.a + pager.m, limit |-> pager.n]
              /\ whole.call = [offset |-> pager.a, limit |-> pager.m + pager.n]
              /\ first.writes = second.writes
              /\ second.writes = whole.writes
              /\ pager.m + pager.n <= MAX_LIMIT )
            => first.page.lines \o second.page.lines = whole.page.lines

\* pages [50, 50], [100, 50] and [50, 100] were read from a source of at least
\* 150 lines with no write in between
C22_Witness ==
    /\ pager.on
    /\ pager.a = 50 /\ pager.m = 50 /\ pager.n = 50
    /\ Len(pager.reads) = 3
    /\ { pager.reads[i].call : i \in 1 .. 3 } = PageCalls
    /\ \A i \in 1 .. 3 : pager.reads[i].writes = pager.reads[1].writes
    /\ \E i \in 1 .. 3 : Len(pager.reads[i].page.lines) = 100


(* C23 *)

\* the viewer has done its initial load and then only load-more operations,
\* one at a time, each answered with a page, on a source nobody wrote to
SerialLoadsOfStableSource ==
    /\ viewer.on
    /\ viewer.mounted
    /\ viewer.flights = <<>>
    /\ viewer.serial
    /\ ~viewer.failed
    /\ viewer.writes = 0
    /\ \A k \in DOMAIN viewer.ops : k > 1 => viewer.ops[k] = "more"

\* C23: after the initial load and any number of load-more operations issued
\* one at a time on a stable source, the lines held are a contiguous run of
\* the source, oldest to newest, that ends at the newest line.
C23_HeldLinesAreTailOfSource ==
    SerialLoadsOfStableSource =>
        /\ Len(viewer.lines) <= Len(viewer.source)
        /\ viewer.lines = SubSeq(viewer.source,
                                 Len(viewer.source) - Len(viewer.lines) + 1,
                                 Len(viewer.source))


(* C24 *)

\* the component has rendered with everything it was told
MonitorSettled == monitor.queued = [loading |-> <<>>, isVisible |-> <<>>]

\* C24: the periodic poll is active exactly while the initial load has
\* finished and the tab is visible: a refresh at once when polling starts or
\* the tab becomes visible again, then one every 5000 ms; when the tab becomes
\* hidden the timer is cleared and the poll in flight aborted, and no poll
\* request is initiated while the tab is hidden.
C24_PollsExactlyWhileLoadedAndVisible ==
    monitor.on =>
        \* no poll request is initiated while the tab is hidden or loading
        /\ monitor.ev.poll => (~monitor.hidden /\ ~monitor.loading)
        \* a refresh at once when polling starts, then one every 5000 ms
        /\ monitor.ev.started =>
              /\ monitor.ev.poll
              /\ monitor.flights # <<>>
              /\ monitor.timer = << monitor.clock + 5000 >>
        /\ monitor.ev.kind = "interval" =>
              /\ monitor.ev.poll
              /\ monitor.ev.due = << monitor.clock >>
              /\ monitor.timer = << monitor.clock + 5000 >>
        /\ monitor.timer # <<>> =>
              /\ monitor.timer[1] >= monitor.clock
              /\ monitor.timer[1] <= monitor.clock + 5000
        \* once rendered: active exactly while loaded and visible, and a
        \* hidden tab has neither a timer nor a poll in flight
        /\ MonitorSettled =>
              /\ monitor.timer # <<>> <=> (~monitor.loading /\ ~monitor.hidden)
              /\ monitor.hidden => monitor.flights = <<>>


----------------------------------------------------------------------------
(* C31 *)

\* a successful metrics response was produced in this step
SnapshotSentStep ==
    /\ MetricsStep \/ ResumeStep
    /\ last'.route = "metrics"
    /\ last'.status = 200

\* C31: in the order in which successful metrics responses are produced the
\* snapshot timestamps never decrease, whatever the interleaving: the slot
\* never goes from a newer snapshot to an older one, every snapshot sent is
\* at least as new as the one in the slot before and no newer than the one
\* in the slot after, and at least as new as the snapshot sent just before.
C31_SnapshotTimestampsNeverDecrease ==
    [][ /\ CachePresent
           => /\ metricsCache'.data # <<>>
              /\ metricsCache'.data[1].timestamp >= metricsCache.data[1].timestamp
        /\ SnapshotSentStep
           => /\ last'.ts = last'.body.timestamp
              /\ metricsCache'.data # <<>>
              /\ last'.ts <= metricsCache'.data[1].timestamp
              /\ CachePresent => last'.ts >= metricsCache.data[1].timestamp
              /\ (last.route = "metrics" /\ last.status = 200) => last'.ts >= last.ts
        /\ (last.route = "metrics" /\ last.status = 200)
           => /\ CachePresent
              /\ last.ts <= metricsCache.data[1].timestamp ]_vars

\* of two overlapping requests that both found the slot empty, the one that
\* started first has sent its snapshot, at a later time than the other
\* started, and the other is still computing
C31_Witness ==
    /\ last.kind = "computed"
    /\ last.status = 200
    /\ Len(pending) = 1
    /\ pending[1].now > last.start
    /\ pending[1].seenTs = -1
    /\ last.ts > pending[1].now
    /\ metricsCache.data = <<last.body>>


----------------------------------------------------------------------------
(* C32 *)

\* C32: admission is isolated per identity.  What a request of an identity
\* is answered (admitted or 429, and retryAfter) is what the identity's own
\* reference window gives, a window that only the arrival times of its own
\* requests move; the request touches no record and no window of another
\* identity, and a sweep touches no window, removes expired records only
\* and leaves the others as they are.
C32_AdmissionIsolatedPerIdentity ==
    [][ /\ RequestStep
           => LET ip == last'.ip
                  w  == win'[ip]
              IN  /\ (last'.status # 429) <=> (w.n <= RATE_LIMIT_MAX_REQUESTS)
                  /\ last'.status = 429
                        => last'.retryAfter
                              = Ceil(w.start + RATE_LIMIT_WINDOW - now, 1000)
                  /\ \A other \in IPs \ {ip} :
                        /\ win'[other] = win[other]
                        /\ (other \in DOMAIN rateLimitMap')
                              <=> (other \in DOMAIN rateLimitMap)
                        /\ other \in DOMAIN rateLimitMap
                              => rateLimitMap'[other] = rateLimitMap[other]
        /\ ( nreq' = nreq /\ rateLimitMap' # rateLimitMap )
           => /\ win' = win
              /\ DOMAIN rateLimitMap' \subseteq DOMAIN rateLimitMap
              /\ \A ip \in DOMAIN rateLimitMap :
                    IF ip \in DOMAIN rateLimitMap'
                    THEN rateLimitMap'[ip] = rateLimitMap[ip]
                    ELSE now >= rateLimitMap[ip].resetAt ]_vars

\* in one and the same window an identity is admitted while the other one
\* is over its quota
C32_Witness ==
    /\ last.status = 200
    /\ \E other \in IPs \ {last.ip} :
          /\ other \in DOMAIN rateLimitMap
          /\ last.ip \in DOMAIN rateLimitMap
          /\ rateLimitMap[other].count > RATE_LIMIT_MAX_REQUESTS
          /\ rateLimitMap[last.ip].count <= RATE_LIMIT_MAX_REQUESTS
          /\ now < rateLimitMap[other].resetAt
          /\ rateLimitMap[other].resetAt <= rateLimitMap[last.ip].resetAt
          /\ ~win[other].allowed


----------------------------------------------------------------------------
(* C33 *)

\* C33: the quota of an identity is shared by the rate-limited routes.  A
\* request to /api/metrics or to /api/metrics/history finds the count of all
\* the requests the identity made to either route in the current window,
\* adds its own and is admitted exactly if the sum is at most 100; a request
\* answered by /health, by the unknown-route 404 or by the origin check
\* changes no record.
C33_RoutesShareQuota ==
    [][ /\ RequestStep
           => LET ip  == last'.ip
                  old == IF ip \in DOMAIN rateLimitMap
                            /\ now < rateLimitMap[ip].resetAt
                         THEN rateLimitMap[ip].count ELSE 0
              IN  /\ last'.route \in {"metrics", "history"}
                  /\ old = (IF win[ip].n = 0
                               \/ now >= win[ip].start + RATE_LIMIT_WINDOW
                            THEN 0 ELSE win[ip].n)
                  /\ ip \in DOMAIN rateLimitMap'
                  /\ rateLimitMap'[ip].count = old + last'.calls
                  /\ (last'.status # 429)
                        <=> (old + last'.calls <= RATE_LIMIT_MAX_REQUESTS)
        /\ ( last' # last /\ last'.route \notin {"metrics", "history"} )
           => /\ last'.route \in {"health", "api", "logs"}
              /\ rateLimitMap' = rateLimitMap
              /\ win' = win
        /\ ( last' # last /\ last'.kind = "cors" )
           => rateLimitMap' = rateLimitMap ]_vars

\* a request to /api/metrics refused with 429 as the 101st of its window,
\* 99 of the 100 before it having gone to /api/metrics/history
C33_Witness ==
    /\ last.route = "metrics"
    /\ last.status = 429
    /\ nreq = 3
    /\ rateLimitMap[last.ip].count = RATE_LIMIT_MAX_REQUESTS + 1
    /\ win[last.ip].n = RATE_LIMIT_MAX_REQUESTS + 1


----------------------------------------------------------------------------
(* C34 *)

\* C34: whatever the interleaving of refresh and load-more requests and the
\* order in which their responses arrive (each response having nextOffset =
\* requested offset + number of lines returned), the offset the viewer stores
\* is the number of lines it holds, and of a stable source it holds no line
\* twice.
C34_OffsetIsNumberOfLinesHeld ==
    viewer.on =>
        /\ viewer.offset = Len(viewer.lines)
        /\ viewer.writes = 0 =>
              \A i, j \in DOMAIN viewer.lines :
                  viewer.lines[i] = viewer.lines[j] => i = j


----------------------------------------------------------------------------
(* C35 *)

\* a refresh received its snapshot in this step
RefreshedStep ==
    /\ monitor'.ev.kind = "poll"
    /\ monitor'.error = <<>>
    /\ Len(monitor'.flights) < Len(monitor.flights)

\* C35: the history is a sliding window of at most 20 samples per series:
\* the three series always have the same length, never more than 20, and a
\* successful refresh appends its sample as the last entry and discards the
\* oldest entry only when the series already holds 20, whether the initial
\* load succeeded or failed.
C35_HistoryIsSlidingWindow ==
    [][ monitor.on =>
          LET SlidIn(s, v) == IF Len(s) = HISTORY_LENGTH THEN Append(Tail(s), v)
                              ELSE Append(s, v)
          IN
          /\ Len(monitor'.history.cpu) = Len(monitor'.history.memory)
          /\ Len(monitor'.history.cpu) = Len(monitor'.history.disk)
          /\ Len(monitor'.history.cpu) <= HISTORY_LENGTH
          /\ RefreshedStep
             => /\ monitor'.history.cpu
                     = SlidIn(monitor.history.cpu, monitor'.resources.cpu)
                /\ monitor'.history.memory
                     = SlidIn(monitor.history.memory, monitor'.resources.memory)
                /\ monitor'.history.disk
                     = SlidIn(monitor.history.disk, monitor'.resources.disk) ]_vars


(* C36 *)

\* C36: the error state is not absorbing. A failed initial load or poll sets
\* the error and leaves resources and history alone; a failed poll leaves the
\* interval as it was and a failed initial load ends the loading; while an
\* error is displayed and the tab is visible the interval stays armed, due
\* within 5000 ms, and fires a poll 5000 ms after the one before; a poll that
\* succeeds clears the error and replaces the resources; aborting polls
\* changes neither resources, history nor error.
C36_ErrorStateIsNotAbsorbing ==
    [][ monitor.on =>
          /\ (monitor'.ev.kind \in {"initial", "poll"} /\ monitor'.ev.failure # <<>>) =>
                /\ monitor'.error = monitor'.ev.failure
                /\ monitor'.error # <<>>
                /\ monitor'.resources = monitor.resources
                /\ monitor'.history = monitor.history
                /\ monitor'.ev.kind = "poll" =>
                      /\ monitor'.timer = monitor.timer
                      /\ monitor'.loading = monitor.loading
                      /\ monitor'.isVisible = monitor.isVisible
                      /\ monitor'.queued = monitor.queued
                /\ monitor'.ev.kind = "initial" => monitor'.queued.loading = <<FALSE>>
          /\ ( /\ monitor'.error # <<>>
               /\ monitor'.queued = [loading |-> <<>>, isVisible |-> <<>>]
               /\ ~monitor'.loading
               /\ ~monitor'.hidden ) =>
                /\ monitor'.timer # <<>>
                /\ monitor'.timer[1] >= monitor'.clock
                /\ monitor'.timer[1] <= monitor'.clock + 5000
          /\ (monitor'.ev.kind = "interval" /\ monitor.error # <<>>) =>
                /\ monitor'.ev.poll
                /\ Len(monitor'.flights) = Len(monitor.flights) + 1
                /\ monitor'.ev.due = << monitor.clock >>
                /\ monitor'.timer = << monitor.clock + 5000 >>
                /\ monitor'.error = monitor.error
          /\ (monitor'.ev.kind = "poll" /\ monitor'.ev.data # <<>>) =>
                /\ monitor'.error = <<>>
                /\ monitor'.resources = monitor'.ev.data[1]
                /\ monitor'.timer = monitor.timer
          /\ monitor'.ev.aborted > 0 =>
                /\ Len(monitor'.flights) <= 1
                /\ monitor'.resources = monitor.resources
                /\ monitor'.history = monitor.history
                /\ monitor'.error = monitor.error ]_vars

\* the initial load failed (the history never got its 20 entries), polling
\* started all the same, and its first poll, the only one so far, has just
\* cleared the error and replaced the resources; the interval stays armed
C36_Witness ==
    /\ monitor.on
    /\ monitor.changes = 0
    /\ monitor.clock = 0
    /\ monitor.initial = "done"
    /\ ~monitor.loading
    /\ monitor.flights = <<>>
    /\ monitor.timer = << 5000 >>
    /\ monitor.ev.kind = "poll"
    /\ monitor.ev.data = << ResourceData(90) >>
    /\ monitor.error = <<>>
    /\ monitor.resources = ResourceData(90)
    /\ monitor.history.cpu = << 90 >>

====
